---- MODULE Spec2Model ----
(***************************************************************************)
(* hubfly-builder: the job store, the dispatcher (executor.Manager), the   *)
(* worker goroutines it spawns, process crash and restart, and (further    *)
(* down) one worker run and the callback reporter step by step.            *)
(*                                                                         *)
(* Spec         the whole process: store, dispatcher, goroutines, restart. *)
(*              Store calls may fail wherever the code tests their error,  *)
(*              up to MaxStoreFaults times in a behaviour.                 *)
(* RestartSpec  the same steps on the smaller instance.                    *)
(* RetrySpec    the same steps on one job that may be retried.             *)
(* FairSpec     the smaller instance without store faults and crashes,     *)
(*              with the fairness the ticker and the Go scheduler give.    *)
(* RunSpec      one Worker.Run, statement by statement, with its           *)
(*              resources, its deferred calls and Client.ReportResult.     *)
(* CmdSpec      one executeCommand: the child process, cmd.Wait and the    *)
(*              two goroutines of streamPipe, step by step.                *)
(* ChunkSpec    the same with a pipe of bounded capacity and lines longer  *)
(*              than the scanner's largest token.                          *)
(* SweepSpec    main statement by statement, the orphaned containers and   *)
(*              the containers of the running jobs.                        *)
(* PayloadSpec  the payload of a job from the request to the planner.      *)
(***************************************************************************)
EXTENDS Bags, FiniteSets, Integers, Naturals, Sequences, TLC

(* ------------------------------ bounds --------------------------------- *)
\* the instance of Spec: jobs submitted, largest maxConcurrent and maxRetries
NumJobs == 3
MaxConcurrentCfg == 2
MaxRetriesCfg == 1
\* the smaller instance of RestartSpec and FairSpec
SmallNumJobs == 2
SmallConcurrentCfg == 2
SmallRetriesCfg == 0
\* the instance of RetrySpec: one job that may be retried
RetryNumJobs == 1
RetryConcurrentCfg == 2
RetryRetriesCfg == 1
\* store calls that may return an error in one behaviour
MaxStoreFaults == 1
\* longest command and longest pattern given to IsCommandAllowed
MaxCmdLen == 3
MaxPatLen == 2
\* longest candidate list and longest allow-list given to the detector
MaxCandidates == 2
MaxAllowed == 2
\* largest number of keys of the env map given to the planner
MaxEnvKeys == 2
\* longest commitSha of a job
MaxShaLen == 13
\* longest short job id of the two jobs whose sessions are followed
MaxIdLen == 2

\* requests of POST /api/v1/jobs that are followed
MaxRequests == 2

\* length of a build-arg key, of its value and of the image tag
MaxArgLen == 2

\* lines the child process of executeCommand writes to one stream
MaxLines == 2
\* chunks of 64 KiB the child process writes to one stream
MaxChunks == 3

\* longest buildArgKeys and longest secretBuildKeys given to the generator
MaxRecipeKeys == 2

(* ------------------------- program constants --------------------------- *)
\* api.Client.ReportResult: const maxRetries = 5
reportMaxRetries == 5
\* sanitizeContainerName: if len(result) > 48
containerNameMax == 48

Jobs == 1..NumJobs

\* BuildJob.RetryCount as decoded from the request body of POST /api/v1/jobs
RetryCountInputs == {0, 1}

VARIABLES
    jobs,            \* build_jobs table: id -> the columns status,
                     \* retry_count and created_at of the row
    clock,           \* wall clock read by CreateJob (created_at)
    submissions,     \* number of jobs the clients submit
    activeBuilds,    \* Manager.activeBuilds (key set of the map)
    newJobSignal,    \* number of elements in the channel Manager.newJobSignal
    dpc,             \* where the process / the dispatcher goroutine is
    workers,         \* bag of the goroutines started by tryToDispatchJob
    maxConcurrent,   \* Manager.maxConcurrent
    maxRetries,      \* executor.maxRetries
    faults,          \* number of store calls that returned an error
    stopStatus,      \* history: status of each row when the process stopped
    claimedSinceStart, \* history: a claim was written since process start
    \* ---- one goroutine of tryToDispatchJob, statement by statement ----
    callbackURL,     \* api.Client.callbackURL (CALLBACK_URL)
    rpc,             \* the statement of Worker.Run / ReportResult it is at
    defers,          \* the deferred calls of Run, in the order of the defers
    logFile,         \* w.logFile: "none", "open" or "closed"
    workDir,         \* the workspace directory exists
    secretDir,       \* the secret scratch directory exists
    container,       \* the container hubfly-buildkit-<job id>
    reason,          \* the argument of failJob
    reportFor,       \* the status argument of ReportResult
    body,            \* the payload marshalled by ReportResult
    attempts,        \* POST requests made by this ReportResult
    lastErr,         \* lastErr of ReportResult
    lastOutcome,     \* history: what the latest POST came back with
    repRet,          \* what ReportResult returned
    ret,             \* what Run returns
    wasBuilding,     \* history: the status building was written
    cliContainer,    \* history: the container when the build CLI started
    rmFailed,        \* history: a docker rm -f of the container failed
    failStored,      \* history: failJob's status update succeeded
    overran,         \* history: the job's timeoutSeconds elapsed while a
                     \* process started by executeCommand was running
    cliExit,         \* history: how the build CLI of this run exited
    lastStep,        \* history: the latest step of the pipeline that was
                     \* executed, and whether it returned without error
    \* ---- one call of a function that reads no state of the process ----
    fnCall,          \* the function called and its arguments
    fnResult,        \* << >> before the call returns, <<value>> after
    \* ---- the BuildKit sessions of two jobs that are in progress ----
    jobIDs,          \* the ids of the two jobs
    docker,          \* container name -> its state and the job that ran it
    session,         \* per job: the stage of its ephemeral session
    \* ---- one executeCommand, followed goroutine by goroutine ----
    xpc,             \* the statement executeCommand is at
    child,           \* the child process: not started, running, exited
    written,         \* per stream: the lines the child has written
    pipeBuf,         \* per stream: the lines written and not yet read
    readEnd,         \* per stream: the parent's end of the pipe
    reader,          \* per stream: the goroutine that runs streamPipe
    logged           \* per stream: the lines streamPipe put in the job log

sysVars == <<jobs, clock, submissions, activeBuilds, newJobSignal, dpc, workers,
             maxConcurrent, maxRetries, faults, stopStatus,
             claimedSinceStart>>

runVars == <<callbackURL, rpc, defers, logFile, workDir, secretDir, container,
             reason, reportFor, body, attempts, lastErr, lastOutcome, repRet,
             ret, wasBuilding, cliContainer, rmFailed, failStored, overran,
             cliExit, lastStep>>

fnVars == <<fnCall, fnResult>>

kitVars == <<jobIDs, docker, session>>

cmdVars == <<xpc, child, written, pipeBuf, readEnd, reader, logged>>

vars == <<sysVars, runVars, fnVars, kitVars, cmdVars>>

(* ------------------------------ storage -------------------------------- *)
NoRow == [status |-> "none", retryCount |-> 0, createdAt |-> 0]

\* Storage.CreateJob: status forced to pending, created_at = now, the other
\* columns as decoded from the request
CreateJob(js, id, rc, now) ==
    [js EXCEPT ![id] = [status |-> "pending", retryCount |-> rc,
                        createdAt |-> now]]

PendingIds(js) == {j \in Jobs : js[j].status = "pending"}

GetNewestPendingJob(js) ==
    IF PendingIds(js) = {} THEN 0
    ELSE CHOOSE j \in PendingIds(js) :
             \A k \in PendingIds(js) : js[j].createdAt >= js[k].createdAt

\* Storage.GetPendingJob: WHERE status = 'pending' ORDER BY created_at ASC
\* LIMIT 1; 0 stands for sql.ErrNoRows
GetPendingJob(js) ==
    IF PendingIds(js) = {} THEN 0
    ELSE CHOOSE j \in PendingIds(js) :
             \A k \in PendingIds(js) : js[j].createdAt <= js[k].createdAt

UpdateJobStatus(js, id, status) == [js EXCEPT ![id].status = status]

IncrementJobRetryCount(js, id) ==
    [js EXCEPT ![id].retryCount = js[id].retryCount + 1]

ResetClaimedJobs(js) ==
    [j \in Jobs |->
        IF js[j].status = "claimed"
        THEN [js[j] EXCEPT !.status = "pending"]
        ELSE js[j]]

\* Storage.ResetInProgressJobs: UPDATE build_jobs SET status = 'pending'
\* WHERE status = 'claimed' OR status = 'building'
ResetInProgressJobs(js) ==
    [j \in Jobs |->
        IF js[j].status = "claimed" \/ js[j].status = "building"
        THEN [js[j] EXCEPT !.status = "pending"]
        ELSE js[j]]

(* ------------------------------ manager -------------------------------- *)
SignalNewJobUnbuffered(sig) == sig + 1

\* Manager.SignalNewJob: non-blocking send on a channel of capacity 1
SignalNewJob(sig) == IF sig < 1 THEN sig + 1 ELSE sig

Goroutine(j, pc) == [job |-> j, pc |-> pc]

RunPcs == {"start", "work"}

\* goroutines whose worker.Run() has not returned yet
RunningWorkers == {g \in BagToSet(workers) : g.pc \in RunPcs}

RunningCount ==
    LET S == RunningWorkers
        RECURSIVE Sum(_)
        Sum(T) == IF T = {} THEN 0
                  ELSE LET g == CHOOSE x \in T : TRUE
                       IN  CopiesIn(g, workers) + Sum(T \ {g})
    IN  Sum(S)

Move(g, h) == (workers (-) SetToBag({g})) (+) SetToBag({h})

NoPayload == [status |-> "", error |-> ""]

NoCall == [fn |-> "none"]

\* a step of Worker.Run and its outcome
Step(name, ok) == [step |-> name, ok |-> ok]

\* no step of the pipeline was executed yet
NoStep == Step("none", TRUE)

\* no function is followed on its own
FnIdle == fnCall = NoCall /\ fnResult = << >>

\* no pair of sessions is followed
KitIdle == jobIDs = << >> /\ docker = << >> /\ session = << >>

\* no command is followed goroutine by goroutine
CmdIdle ==
    /\ xpc = "idle" /\ child = "not started"
    /\ written = << >> /\ pipeBuf = << >> /\ readEnd = << >>
    /\ reader = << >> /\ logged = << >>

\* no goroutine is followed statement by statement
RunIdle ==
    /\ callbackURL = ""
    /\ rpc = "idle"
    /\ defers = << >>
    /\ logFile = "none"
    /\ workDir = FALSE
    /\ secretDir = FALSE
    /\ container = "none"
    /\ reason = ""
    /\ reportFor = ""
    /\ body = NoPayload
    /\ attempts = 0
    /\ lastErr = "nil"
    /\ lastOutcome = "none"
    /\ repRet = "none"
    /\ ret = "none"
    /\ wasBuilding = FALSE
    /\ cliContainer = "not run"
    /\ rmFailed = FALSE
    /\ failStored = FALSE
    /\ overran = FALSE
    /\ cliExit = "not run"
    /\ lastStep = NoStep

\* the process before main runs, with an empty table: the clients will
\* submit n jobs, maxConcurrent is at most c and maxRetries at most r
Instance(n, c, r) ==
    /\ RunIdle
    /\ jobs = [j \in Jobs |-> NoRow]
    /\ clock = 0
    /\ submissions = n
    /\ activeBuilds = {}
    /\ newJobSignal = 0
    /\ dpc = "down"
    /\ workers = EmptyBag
    /\ maxConcurrent \in 1..c
    /\ maxRetries \in 0..r
    /\ faults = 0
    /\ stopStatus = [j \in Jobs |-> "none"]
    /\ claimedSinceStart = FALSE

Init ==
    /\ FnIdle /\ KitIdle /\ CmdIdle
    /\ Instance(NumJobs, MaxConcurrentCfg, MaxRetriesCfg)

SmallInit ==
    /\ FnIdle /\ KitIdle /\ CmdIdle
    /\ Instance(SmallNumJobs, SmallConcurrentCfg, SmallRetriesCfg)

\* main: ResetInProgressJobs (log.Fatalf on error), then go manager.Start()
\* and server.Start
Startup ==
    /\ dpc = "down"
    /\ jobs' = ResetInProgressJobs(jobs)
    /\ dpc' = "select"
    /\ claimedSinceStart' = FALSE
    /\ UNCHANGED <<clock, submissions, activeBuilds, newJobSignal, workers,
                   maxConcurrent, maxRetries, faults, stopStatus>>
    /\ UNCHANGED <<runVars, fnVars, kitVars, cmdVars>>

\* the process is killed: every goroutine and the Manager are gone, the
\* table stays
Crash ==
    /\ dpc # "down"
    /\ dpc' = "down"
    /\ workers' = EmptyBag
    /\ activeBuilds' = {}
    /\ newJobSignal' = 0
    /\ stopStatus' = [j \in Jobs |-> jobs[j].status]
    /\ UNCHANGED <<jobs, clock, submissions, maxConcurrent, maxRetries, faults,
                   claimedSinceStart>>
    /\ UNCHANGED <<runVars, fnVars, kitVars, cmdVars>>

\* CreateJobHandler from s.storage.CreateJob on: the row is inserted with the
\* next time stamp and the manager is signalled
StoreAndSignal(j, rc) ==
    /\ dpc # "down"
    /\ jobs[j].status = "none"
    /\ j = clock + 1
    /\ j <= submissions
    /\ clock' = clock + 1
    /\ jobs' = CreateJob(jobs, j, rc, clock + 1)
    /\ newJobSignal' = SignalNewJob(newJobSignal)
    /\ UNCHANGED <<submissions, activeBuilds, dpc, workers, maxConcurrent,
                   maxRetries, faults, stopStatus, claimedSinceStart>>

\* Server.CreateJobHandler, the insert succeeded (id is the primary key: an
\* insert of an existing id, or any store error, answers 500 and changes
\* nothing)
CreateJobHandler(j, rc) ==
    /\ StoreAndSignal(j, rc)
    /\ UNCHANGED <<runVars, fnVars, kitVars, cmdVars>>

\* tryToDispatchJob, first critical section
AtCapacity == Cardinality(activeBuilds) >= maxConcurrent

\* tryToDispatchJob: m.activeBuilds[job.ID] = true
AddActive(active, id) == active \cup {id}

DeleteActiveKeeps(active, id) == active

\* tryToDispatchJob: delete(m.activeBuilds, job.ID)
DeleteActive(active, id) == active \ {id}

\* a store call may still return an error
FaultsLeft == faults < MaxStoreFaults

\* the store calls of a step returned n errors
Faulted(n) == faults' = faults + n

\* what GetPendingJob and UpdateJobStatus(claimed) come to in
\* tryToDispatchJob: no row (sql.ErrNoRows, or a store error), or the oldest
\* pending row and then a failed or a successful claim. At capacity they are
\* not called
DispatchOutcomes ==
    IF AtCapacity \/ PendingIds(jobs) = {} THEN {"no job"}
    ELSE IF FaultsLeft THEN {"no job", "claim failed", "claimed"}
    ELSE {"claimed"}

\* tryToDispatchJob, called from the one dispatcher goroutine. The picked
\* row stays pending until this goroutine claims it and the other goroutines
\* only delete from activeBuilds, so their steps in between commute with the
\* ones here.
TryToDispatchJob(out) ==
    LET pick == GetPendingJob(jobs)
    IN  IF AtCapacity \/ out = "no job"
        THEN /\ Faulted(IF AtCapacity \/ pick = 0 THEN 0 ELSE 1)
             /\ UNCHANGED <<jobs, activeBuilds, workers, claimedSinceStart,
                            stopStatus>>
        ELSE IF out = "claimed"
        THEN /\ Faulted(0)
             /\ activeBuilds' = AddActive(activeBuilds, pick)
             /\ jobs' = UpdateJobStatus(jobs, pick, "claimed")
             /\ workers' = workers (+) SetToBag({Goroutine(pick, "start")})
             /\ claimedSinceStart' = TRUE
             /\ stopStatus' = [j \in Jobs |-> "none"]
        ELSE /\ Faulted(1)
             /\ activeBuilds' =
                    DeleteActive(AddActive(activeBuilds, pick), pick)
             /\ UNCHANGED <<jobs, workers, claimedSinceStart, stopStatus>>

\* Manager.Start: case <-ticker.C: m.tryToDispatchJob()
Tick(out) ==
    /\ dpc = "select"
    /\ TryToDispatchJob(out)
    /\ UNCHANGED <<clock, submissions, newJobSignal, dpc, maxConcurrent,
                   maxRetries>>
    /\ UNCHANGED <<runVars, fnVars, kitVars, cmdVars>>

\* Manager.Start: case <-m.newJobSignal: m.tryToDispatchJob()
SignalWake(out) ==
    /\ dpc = "select"
    /\ newJobSignal > 0
    /\ newJobSignal' = newJobSignal - 1
    /\ TryToDispatchJob(out)
    /\ UNCHANGED <<clock, submissions, dpc, maxConcurrent, maxRetries>>
    /\ UNCHANGED <<runVars, fnVars, kitVars, cmdVars>>

(* ------------------ worker goroutine, store-level steps ---------------- *)
(* A step ends where the status column was written for the last time       *)
(* before the goroutine waits on something outside the process (the git    *)
(* and build processes, the callback), or at the delete from the active    *)
(* set.                                                                    *)
WorkerFrame == UNCHANGED <<clock, submissions, activeBuilds, dpc, maxConcurrent,
                           maxRetries, stopStatus,
                           claimedSinceStart, runVars, fnVars,
                           kitVars, cmdVars>>

\* what Run returns: failJob wraps ErrBuildFailed whatever UpdateJobStatus
\* and ReportResult returned
FailJobError == "ErrBuildFailed"

SucceedJobErrorWrapped(ok, cbOK) ==
    IF ~ok THEN "store" ELSE IF cbOK THEN "nil" ELSE "ErrBuildFailed"

\* Worker.succeedJob: the error of UpdateJobStatus(success) is returned as
\* is, and so is the error of ReportResult
SucceedJobError(ok, cbOK) ==
    IF ~ok THEN "store" ELSE IF cbOK THEN "nil" ELSE "callback"

\* the goroutine of tryToDispatchJob after worker.Run() returned:
\* errors.Is(err, ErrBuildFailed) decides on handleFailedJob
IsBuildFailed(err) == err = "ErrBuildFailed"

AfterRun(err) == IF IsBuildFailed(err) THEN "handle" ELSE "exit"

\* Worker.failJob on the rows: the error of UpdateJobStatus(failed) is only
\* logged
FailJob(js, id, ok) == IF ok THEN UpdateJobStatus(js, id, "failed") ELSE js

\* Worker.Run up to the status building: CreateLogFile, UpdateJobLogPath,
\* UpdateJobStatus(building). started: the three calls succeeded; if one did
\* not, Run returns w.failJob(...), okFail being the outcome of its update
WorkerStart(g, started, okFail) ==
    /\ g.pc = "start"
    /\ started => okFail
    /\ okFail \/ FaultsLeft
    /\ Faulted(IF okFail THEN 0 ELSE 1)
    /\ IF started
       THEN /\ jobs' = UpdateJobStatus(jobs, g.job, "building")
            /\ workers' = Move(g, [g EXCEPT !.pc = "work"])
       ELSE /\ jobs' = FailJob(jobs, g.job, okFail)
            /\ workers' = Move(g, [g EXCEPT !.pc = AfterRun(FailJobError)])
    /\ UNCHANGED newJobSignal
    /\ WorkerFrame

\* Worker.Run fails at a step after the status building and returns
\* w.failJob(...)
WorkerFail(g, okFail) ==
    /\ g.pc = "work"
    /\ okFail \/ FaultsLeft
    /\ Faulted(IF okFail THEN 0 ELSE 1)
    /\ jobs' = FailJob(jobs, g.job, okFail)
    /\ workers' = Move(g, [g EXCEPT !.pc = AfterRun(FailJobError)])
    /\ UNCHANGED newJobSignal
    /\ WorkerFrame

\* Worker.Run after a build that exited zero: return w.succeedJob()
WorkerSucceed(g, ok, cbOK) ==
    /\ g.pc = "work"
    /\ ok \/ (FaultsLeft /\ cbOK)
    /\ Faulted(IF ok THEN 0 ELSE 1)
    /\ jobs' = IF ok THEN UpdateJobStatus(jobs, g.job, "success") ELSE jobs
    /\ workers' = Move(g, [g EXCEPT !.pc = AfterRun(SucceedJobError(ok, cbOK))])
    /\ UNCHANGED newJobSignal
    /\ WorkerFrame

\* handleFailedJob: latestJob.RetryCount < maxRetries
MayRetry(retryCount) == retryCount < maxRetries

\* the outcomes of GetJob, IncrementJobRetryCount and
\* UpdateJobStatus(pending) in handleFailedJob; the last two are called only
\* for a job that may be retried
HandleOutcomes(j) ==
    IF ~FaultsLeft THEN {"ok"}
    ELSE IF MayRetry(jobs[j].retryCount)
    THEN {"get failed", "increment failed", "pending failed", "ok"}
    ELSE {"get failed", "ok"}

\* handleFailedJob: return after a failed GetJob or increment; a failed
\* status update is only logged and the signal is sent all the same
HandleFailedJob(g, out) ==
    /\ g.pc = "handle"
    /\ Faulted(IF out = "ok" THEN 0 ELSE 1)
    /\ workers' = Move(g, [g EXCEPT !.pc = "exit"])
    /\ IF out \in {"pending failed", "ok"} /\ MayRetry(jobs[g.job].retryCount)
       THEN /\ jobs' = LET inc == IncrementJobRetryCount(jobs, g.job)
                       IN  IF out = "ok"
                           THEN UpdateJobStatus(inc, g.job, "pending")
                           ELSE inc
            /\ newJobSignal' = SignalNewJob(newJobSignal)
       ELSE UNCHANGED <<jobs, newJobSignal>>
    /\ WorkerFrame

\* the deferred function of the goroutine: delete(m.activeBuilds, job.ID)
GoroutineExit(g) ==
    /\ g.pc = "exit"
    /\ activeBuilds' = DeleteActive(activeBuilds, g.job)
    /\ workers' = workers (-) SetToBag({g})
    /\ UNCHANGED <<jobs, clock, submissions, newJobSignal, dpc, maxConcurrent,
                   maxRetries, faults, stopStatus,
                   claimedSinceStart>>
    /\ UNCHANGED <<runVars, fnVars, kitVars, cmdVars>>

Goroutines == BagToSet(workers)

Next ==
    \/ Startup
    \/ Crash
    \/ \E j \in Jobs, rc \in RetryCountInputs : CreateJobHandler(j, rc)
    \/ \E out \in DispatchOutcomes : Tick(out)
    \/ \E out \in DispatchOutcomes : SignalWake(out)
    \/ \E g \in Goroutines, started, okFail \in BOOLEAN :
           WorkerStart(g, started, okFail)
    \/ \E g \in Goroutines, okFail \in BOOLEAN : WorkerFail(g, okFail)
    \/ \E g \in Goroutines, ok, cbOK \in BOOLEAN : WorkerSucceed(g, ok, cbOK)
    \/ \E g \in Goroutines :
           \E out \in HandleOutcomes(g.job) : HandleFailedJob(g, out)
    \/ \E g \in Goroutines : GoroutineExit(g)

Spec == Init /\ [][Next]_vars

RestartSpec == SmallInit /\ [][Next]_vars

\* the process with one job that is retried after a failed build
RetryInit ==
    /\ FnIdle /\ KitIdle /\ CmdIdle
    /\ Instance(RetryNumJobs, RetryConcurrentCfg, RetryRetriesCfg)

RetrySpec == RetryInit /\ [][Next]_vars

(* --------------------- the process without faults --------------------- *)
\* what tryToDispatchJob comes to when the store calls succeed
DispatchOutcome ==
    IF AtCapacity \/ PendingIds(jobs) = {} THEN "no job" ELSE "claimed"

\* the steps of Next in which every store call succeeds and the process is
\* not killed
FairNext ==
    \/ Startup
    \/ \E j \in Jobs, rc \in RetryCountInputs : CreateJobHandler(j, rc)
    \/ Tick(DispatchOutcome)
    \/ SignalWake(DispatchOutcome)
    \/ \E g \in Goroutines, started \in BOOLEAN : WorkerStart(g, started, TRUE)
    \/ \E g \in Goroutines : WorkerFail(g, TRUE)
    \/ \E g \in Goroutines, cbOK \in BOOLEAN : WorkerSucceed(g, TRUE, cbOK)
    \/ \E g \in Goroutines : HandleFailedJob(g, "ok")
    \/ \E g \in Goroutines : GoroutineExit(g)

\* a step of one of the goroutines started by tryToDispatchJob
GoroutineStep ==
    \E g \in Goroutines :
        \/ \E started \in BOOLEAN : WorkerStart(g, started, TRUE)
        \/ WorkerFail(g, TRUE)
        \/ \E cbOK \in BOOLEAN : WorkerSucceed(g, TRUE, cbOK)
        \/ HandleFailedJob(g, "ok")
        \/ GoroutineExit(g)

\* main starts the dispatcher, the ticker fires every five seconds and the
\* dispatcher goroutine is then scheduled, and every goroutine that can take
\* a step takes one (every worker run returns)
FairSpec ==
    /\ SmallInit
    /\ [][FairNext]_vars
    /\ WF_vars(Startup)
    /\ WF_vars(Tick(DispatchOutcome))
    /\ WF_vars(GoroutineStep)

\* Manager.Start: the select takes one of the ready cases by a uniform
\* random choice, so a signal that stays in the channel is received
WakeSpec == FairSpec /\ WF_vars(SignalWake(DispatchOutcome))

(* ------------- one goroutine of tryToDispatchJob, in detail ------------ *)
RunJob == 1

\* the row of the job with the columns Worker.Run writes
ClaimedRow(rc) ==
    [status |-> "claimed", retryCount |-> rc, createdAt |-> 1,
     logPath |-> "", imageTag |-> "", buildConfig |-> "submitted"]

\* CALLBACK_URL: empty, not parseable by http.NewRequest, or usable
CallbackURLs == {"", "bad", "ok"}

\* the dispatcher has claimed RunJob and started the goroutine; a container of
\* the same name may be left from an earlier process
RunInit ==
    /\ callbackURL \in CallbackURLs
    /\ rpc = "createLog"
    /\ defers = << >>
    /\ logFile = "none"
    /\ workDir = FALSE
    /\ secretDir = FALSE
    /\ container \in {"none", "stale"}
    /\ reason = ""
    /\ reportFor = ""
    /\ body = NoPayload
    /\ attempts = 0
    /\ lastErr = "nil"
    /\ lastOutcome = "none"
    /\ repRet = "none"
    /\ ret = "none"
    /\ wasBuilding = FALSE
    /\ cliContainer = "not run"
    /\ rmFailed = FALSE
    /\ failStored = FALSE
    /\ overran = FALSE
    /\ cliExit = "not run"
    /\ lastStep = NoStep
    /\ FnIdle /\ KitIdle /\ CmdIdle
    /\ \E rc \in RetryCountInputs :
           jobs = [j \in Jobs |-> IF j = RunJob THEN ClaimedRow(rc) ELSE NoRow]
    /\ clock = 1
    /\ submissions = 1
    /\ activeBuilds = {RunJob}
    /\ newJobSignal = 0
    /\ dpc = "select"
    /\ workers = EmptyBag
    /\ maxConcurrent = 1
    /\ maxRetries \in 0..MaxRetriesCfg
    /\ faults = 0
    /\ stopStatus = [j \in Jobs |-> "none"]
    /\ claimedSinceStart = TRUE

\* what a statement of Run leaves alone outside the goroutine
RunFrame == UNCHANGED <<clock, submissions, activeBuilds, newJobSignal, dpc,
                        workers,
                        maxConcurrent, maxRetries, faults,
                        stopStatus, claimedSinceStart, fnVars,
                        kitVars, cmdVars>>

ReportFrame == UNCHANGED <<reportFor, body, attempts, lastErr, lastOutcome,
                           repRet>>

HistoryFrame == UNCHANGED <<wasBuilding, cliContainer, rmFailed, failStored,
                            overran, cliExit>>

\* return w.failJob(r): the call is evaluated before the deferred calls run
ReturnFailJob(r) == rpc' = "failJob" /\ reason' = r

Storage_UpdateJobLogPath(js, id, path) == [js EXCEPT ![id].logPath = path]

Storage_UpdateJobImageTag(js, id, tag) == [js EXCEPT ![id].imageTag = tag]

Storage_UpdateJobBuildConfig(js, id, cfg) ==
    [js EXCEPT ![id].buildConfig = cfg]

DeferNothing(ds, call) == ds

\* defer call
Defer(ds, call) == Append(ds, call)

\* CreateLogFile; defer w.logFile.Close()
RunCreateLog(ok) ==
    /\ rpc = "createLog"
    /\ IF ok
       THEN /\ logFile' = "open"
            /\ defers' = Defer(defers, "logFile.Close")
            /\ rpc' = "updateLogPath"
            /\ UNCHANGED reason
       ELSE /\ ReturnFailJob("failed to create log file")
            /\ UNCHANGED <<logFile, defers>>
    /\ UNCHANGED <<jobs, callbackURL, workDir, secretDir, container, ret>>
    /\ ReportFrame /\ HistoryFrame /\ RunFrame
    /\ UNCHANGED lastStep

\* UpdateJobLogPath
RunUpdateLogPath(ok) ==
    /\ rpc = "updateLogPath"
    /\ IF ok
       THEN /\ jobs' = Storage_UpdateJobLogPath(jobs, RunJob, "log")
            /\ rpc' = "setBuilding"
            /\ UNCHANGED reason
       ELSE /\ ReturnFailJob("internal server error")
            /\ UNCHANGED jobs
    /\ UNCHANGED <<callbackURL, defers, logFile, workDir, secretDir,
                   container, ret>>
    /\ ReportFrame /\ HistoryFrame /\ RunFrame
    /\ UNCHANGED lastStep

\* UpdateJobStatus(building)
RunSetBuilding(ok) ==
    /\ rpc = "setBuilding"
    /\ IF ok
       THEN /\ jobs' = UpdateJobStatus(jobs, RunJob, "building")
            /\ wasBuilding' = TRUE
            /\ rpc' = "mkWorkspace"
            /\ UNCHANGED reason
       ELSE /\ ReturnFailJob("internal server error")
            /\ UNCHANGED <<jobs, wasBuilding>>
    /\ UNCHANGED <<callbackURL, defers, logFile, workDir, secretDir,
                   container, ret,
                   cliContainer, rmFailed, failStored, overran>>
    /\ ReportFrame /\ RunFrame
    /\ UNCHANGED lastStep
    /\ UNCHANGED cliExit

\* os.MkdirTemp; defer os.RemoveAll(w.workDir)
RunMkWorkspace(ok) ==
    /\ rpc = "mkWorkspace"
    /\ IF ok
       THEN /\ workDir' = TRUE
            /\ defers' = Defer(defers, "RemoveAll(workDir)")
            /\ rpc' = "clone"
            /\ UNCHANGED reason
       ELSE /\ ReturnFailJob("internal server error")
            /\ UNCHANGED <<workDir, defers>>
    /\ UNCHANGED <<jobs, callbackURL, logFile, secretDir, container, ret>>
    /\ ReportFrame /\ HistoryFrame /\ RunFrame
    /\ UNCHANGED lastStep

\* job.SourceInfo.Ref and job.SourceInfo.CommitSha: empty, or what the
\* checkout of it comes to
CheckoutOutcomes == {"not set", "ok", "failed"}

\* Worker.executeCommand: cmd.Start, then cmd.Wait until the process exits
\* by itself; BuildConfig.TimeoutSeconds is not read. late: the timeout
\* elapsed while the process was running
ExecuteCommand(elapsed, late) == elapsed \/ late

\* git clone
RunClone(okClone, late) ==
    /\ rpc = "clone"
    /\ overran' = ExecuteCommand(overran, late)
    /\ lastStep' = Step("clone", okClone)
    /\ IF ~okClone THEN ReturnFailJob("failed to clone repository")
       ELSE rpc' = "checkoutRef" /\ UNCHANGED reason
    /\ UNCHANGED <<jobs, callbackURL, defers, logFile, workDir, secretDir,
                   container, ret, wasBuilding, cliContainer, rmFailed,
                   failStored>>
    /\ ReportFrame /\ RunFrame
    /\ UNCHANGED cliExit

\* the two checkouts of Run, in the order of the code
Checkouts == <<"checkoutRef", "checkoutSha">>

\* git checkout <ref> (n = 1), then git checkout <sha> (n = 2): a checkout
\* runs only for a field that is set
RunCheckout(n, out, late) ==
    /\ rpc = Checkouts[n]
    /\ overran' = IF out = "not set" THEN overran
                  ELSE ExecuteCommand(overran, late)
    /\ lastStep' = IF out = "not set" THEN lastStep
                   ELSE Step(Checkouts[n], out = "ok")
    /\ IF out = "failed"
       THEN ReturnFailJob(IF n = 1 THEN "failed to checkout ref"
                          ELSE "failed to checkout commit")
       ELSE /\ rpc' = IF n = 1 THEN Checkouts[2] ELSE "envPlan"
            /\ UNCHANGED reason
    /\ UNCHANGED <<jobs, callbackURL, defers, logFile, workDir, secretDir,
                   container, ret, wasBuilding, cliContainer, rmFailed,
                   failStored>>
    /\ ReportFrame /\ RunFrame
    /\ UNCHANGED cliExit

\* envplan.Resolve and, for a job with env entries (env),
\* UpdateJobBuildConfig, whose error is only logged
RunEnvPlan(env, ok) ==
    /\ rpc = "envPlan"
    /\ jobs' = IF env /\ ok
               THEN Storage_UpdateJobBuildConfig(jobs, RunJob, "resolved")
               ELSE jobs
    /\ rpc' = "secrets"
    /\ UNCHANGED <<callbackURL, defers, logFile, workDir, secretDir, container,
                   reason, ret>>
    /\ ReportFrame /\ HistoryFrame /\ RunFrame
    /\ lastStep' = Step("envPlan", TRUE)

\* prepareBuildSecrets: no directory without secrets; after a failed
\* WriteFile the directory is removed before the error is returned
PrepareOutcomes == {"ok", "MkdirTemp failed", "WriteFile failed"}

\* does the secret directory exist when prepareBuildSecrets returns; secrets:
\* envplan.Resolve found build secrets
SecretDirAfter(secrets, out) == secrets /\ out = "ok"

\* prepareBuildSecrets; defer cleanupSecrets()
RunSecrets(secrets, out) ==
    /\ rpc = "secrets"
    /\ secretDir' = SecretDirAfter(secrets, out)
    /\ IF secrets /\ out # "ok"
       THEN /\ ReturnFailJob("failed to prepare build secrets")
            /\ UNCHANGED defers
       ELSE /\ defers' = Defer(defers, "cleanupSecrets")
            /\ rpc' = "network"
            /\ UNCHANGED reason
    /\ UNCHANGED <<jobs, callbackURL, logFile, workDir, container, ret>>
    /\ ReportFrame /\ HistoryFrame /\ RunFrame
    /\ lastStep' = Step("secrets", ~(secrets /\ out # "ok"))

\* strings.TrimSpace(w.job.BuildConfig.Network) == "" (network: it is not)
RunNetwork(network) ==
    /\ rpc = "network"
    /\ IF network
       THEN rpc' = "startKit" /\ UNCHANGED reason
       ELSE ReturnFailJob("no user network provided")
    /\ UNCHANGED <<jobs, callbackURL, defers, logFile, workDir, secretDir,
                   container,
                   ret>>
    /\ ReportFrame /\ HistoryFrame /\ RunFrame
    /\ lastStep' = IF network THEN lastStep ELSE Step("session", FALSE)

\* the failures of StartEphemeralBuildKit behind its deferred
\* cleanupOnFailure: docker network connect, resolveBuildKitAddr (docker
\* inspect fails, or the address is empty) and waitForBuildKitReady
CleanedUpFailures == {"connect failed", "inspect failed", "no address",
                      "not ready"}

\* where StartEphemeralBuildKit may fail: the networks, the forced removal of
\* a container of the same name, docker run (with --rm, which leaves no
\* container behind), and the failures behind the deferred cleanup
StartOutcomes ==
    {"ok", "network failed", "remove failed", "run failed"}
        \cup CleanedUpFailures

\* EphemeralBuildKit.Stop and forceRemoveContainer on the container: docker
\* rm -f; "No such container" is not an error
DockerRm(c, rmOK) == IF rmOK THEN "none" ELSE c

StartLeavesContainer(c, out, rmOK) ==
    IF out \in {"network failed", "remove failed"} THEN c
    ELSE IF out = "run failed" THEN "none"
    ELSE IF out \in CleanedUpFailures THEN "started"
    ELSE "ready"

StartedUnready(c, out, rmOK) ==
    IF out \in {"network failed", "remove failed"} THEN c
    ELSE IF out = "run failed" THEN "none"
    ELSE IF out \in CleanedUpFailures THEN DockerRm("started", rmOK)
    ELSE "started"

\* the container after StartEphemeralBuildKit; rmOK is the outcome of the
\* Stop of cleanupOnFailure
StartEphemeralBuildKit(c, out, rmOK) ==
    IF out \in {"network failed", "remove failed"} THEN c
    ELSE IF out = "run failed" THEN "none"
    ELSE IF out \in CleanedUpFailures THEN DockerRm("started", rmOK)
    ELSE "ready"

\* did StartEphemeralBuildKit return a session
StartSucceeded(out) == out = "ok"

\* StartEphemeralBuildKit; defer ephemeralSession.Stop()
RunStartKit(out, rmOK) ==
    /\ rpc = "startKit"
    /\ container' = StartEphemeralBuildKit(container, out, rmOK)
    /\ rmFailed' = (rmFailed \/ out = "remove failed"
                              \/ (out \in CleanedUpFailures /\ ~rmOK))
    /\ IF StartSucceeded(out)
       THEN /\ defers' = Defer(defers, "ephemeralSession.Stop")
            /\ rpc' = "strategy"
            /\ UNCHANGED reason
       ELSE /\ ReturnFailJob("failed to start ephemeral BuildKit daemon")
            /\ UNCHANGED defers
    /\ UNCHANGED <<jobs, callbackURL, logFile, workDir, secretDir, ret,
                   wasBuilding,
                   cliContainer, failStored, overran>>
    /\ ReportFrame /\ RunFrame
    /\ lastStep' = Step("session", StartSucceeded(out))
    /\ UNCHANGED cliExit

\* the outcomes of the branch without a Dockerfile
DetectOutcomes == {"ok", "detect failed", "generate failed", "write failed"}

\* os.Stat(Dockerfile) finds one (dockerfile): build it; else without
\* BuildConfig.IsAutoBuild (autoBuild) fail; else
\* AutoDetectBuildConfig, GenerateDockerfile, UpdateJobBuildConfig (its
\* error only logged) and os.WriteFile
RunStrategy(dockerfile, autoBuild, out, okStore) ==
    /\ rpc = "strategy"
    /\ IF dockerfile
       THEN rpc' = "build" /\ UNCHANGED <<reason, jobs>>
       ELSE IF ~autoBuild
       THEN /\ ReturnFailJob("No build strategy found")
            /\ UNCHANGED jobs
       ELSE IF out = "detect failed"
       THEN /\ ReturnFailJob("failed to auto-detect build config")
            /\ UNCHANGED jobs
       ELSE IF out = "generate failed"
       THEN /\ ReturnFailJob("failed to generate Dockerfile")
            /\ UNCHANGED jobs
       ELSE /\ jobs' = IF okStore
                       THEN Storage_UpdateJobBuildConfig(jobs, RunJob,
                                                         "generated")
                       ELSE jobs
            /\ IF out = "write failed"
               THEN ReturnFailJob("failed to write generated Dockerfile")
               ELSE rpc' = "build" /\ UNCHANGED reason
    /\ UNCHANGED <<callbackURL, defers, logFile, workDir, secretDir,
                   container, ret>>
    /\ ReportFrame /\ HistoryFrame /\ RunFrame
    /\ UNCHANGED lastStep

AfterBuildIgnoresExit(okBuild) == "updateImageTag"

AfterBuildSkipTag(okBuild) == IF okBuild THEN "succeedJob" ELSE "failJob"

\* where Run goes on after executeCommand(buildCmd)
AfterBuild(okBuild) == IF okBuild THEN "updateImageTag" ELSE "failJob"

\* executeCommand(buildCmd): the buildctl CLI runs against the session
RunBuild(okBuild, late) ==
    /\ rpc = "build"
    /\ cliContainer' = container
    /\ overran' = ExecuteCommand(overran, late)
    /\ lastStep' = Step("build", okBuild)
    /\ cliExit' = IF okBuild THEN "zero" ELSE "non-zero"
    /\ IF AfterBuild(okBuild) = "failJob"
       THEN ReturnFailJob("BuildKit build failed")
       ELSE rpc' = AfterBuild(okBuild) /\ UNCHANGED reason
    /\ UNCHANGED <<jobs, callbackURL, defers, logFile, workDir, secretDir,
                   container, ret, wasBuilding, rmFailed, failStored>>
    /\ ReportFrame /\ RunFrame

\* UpdateJobImageTag, whose error is only logged
RunUpdateImageTag(okTag) ==
    /\ rpc = "updateImageTag"
    /\ jobs' = IF okTag THEN Storage_UpdateJobImageTag(jobs, RunJob, "tag")
               ELSE jobs
    /\ lastStep' = Step("updateImageTag", okTag)
    /\ rpc' = "succeedJob"
    /\ UNCHANGED <<callbackURL, defers, logFile, workDir, secretDir,
                   container, reason, ret>>
    /\ ReportFrame /\ HistoryFrame /\ RunFrame

\* Worker.succeedJob: a failed UpdateJobStatus(success) is returned at once,
\* else ReportResult(job, "success", "")
RunSucceedJob(ok) ==
    /\ rpc = "succeedJob"
    /\ IF ok
       THEN /\ jobs' = UpdateJobStatus(jobs, RunJob, "success")
            /\ reportFor' = "success"
            /\ rpc' = "report"
            /\ UNCHANGED ret
       ELSE /\ ret' = SucceedJobError(FALSE, TRUE)
            /\ rpc' = "defers"
            /\ UNCHANGED <<jobs, reportFor>>
    /\ UNCHANGED <<callbackURL, defers, logFile, workDir, secretDir, container,
                   reason, body, attempts, lastErr, lastOutcome, repRet>>
    /\ HistoryFrame /\ RunFrame
    /\ lastStep' = Step("status", ok)

\* Worker.failJob: UpdateJobStatus(failed), its error only logged, then
\* ReportResult(job, "failed", reason)
RunFailJob(ok) ==
    /\ rpc = "failJob"
    /\ jobs' = FailJob(jobs, RunJob, ok)
    /\ failStored' = ok
    /\ reportFor' = "failed"
    /\ rpc' = "report"
    /\ UNCHANGED <<callbackURL, defers, logFile, workDir, secretDir, container,
                   reason, body, attempts, lastErr, lastOutcome, repRet, ret,
                   wasBuilding, cliContainer, rmFailed, overran>>
    /\ RunFrame
    /\ lastStep' = Step("status", ok)
    /\ UNCHANGED cliExit

ReportPayloadNoError(status, errorMsg) == [status |-> status, error |-> ""]

\* the fields Status and Error of api.ReportPayload
ReportPayload(status, errorMsg) == [status |-> status, error |-> errorMsg]

\* Client.ReportResult up to the loop: nothing to do without a callback URL
RunReport ==
    /\ rpc = "report"
    /\ IF callbackURL = ""
       THEN /\ repRet' = "nil"
            /\ rpc' = "afterReport"
            /\ UNCHANGED body
       ELSE /\ body' = ReportPayload(reportFor,
                                     IF reportFor = "failed" THEN reason
                                     ELSE "")
            /\ rpc' = "post"
            /\ UNCHANGED repRet
    /\ UNCHANGED <<jobs, callbackURL, defers, logFile, workDir, secretDir,
                   container,
                   reason, reportFor, attempts, lastErr, lastOutcome, ret>>
    /\ HistoryFrame /\ RunFrame
    /\ lastStep' = Step("callback", TRUE)

\* what httpClient.Do and the status code of the response come to
PostOutcomes == {"2xx", "non-2xx", "transport error"}

LoopContinuesShort(i) == i < reportMaxRetries

\* ReportResult: for i := 0; i <= maxRetries; i++
LoopContinues(i) == i <= reportMaxRetries

\* one iteration of the loop of ReportResult, i = attempts: the backoff
\* sleep, http.NewRequest (its error is returned at once), the POST and the
\* test of the response
RunPost(outcome) ==
    /\ rpc = "post"
    /\ IF callbackURL = "bad"
       THEN /\ repRet' = "request error"
            /\ rpc' = "afterReport"
            /\ UNCHANGED <<attempts, lastErr, lastOutcome>>
       ELSE /\ attempts' = attempts + 1
            /\ lastOutcome' = outcome
            /\ IF outcome = "2xx"
               THEN /\ repRet' = "nil"
                    /\ rpc' = "afterReport"
                    /\ UNCHANGED lastErr
               ELSE /\ lastErr' = outcome
                    /\ IF LoopContinues(attempts + 1)
                       THEN UNCHANGED <<repRet, rpc>>
                       ELSE /\ repRet' = "failed to report: " \o outcome
                            /\ rpc' = "afterReport"
    /\ UNCHANGED <<jobs, callbackURL, defers, logFile, workDir, secretDir,
                   container,
                   reason, reportFor, body, ret>>
    /\ HistoryFrame /\ RunFrame
    /\ UNCHANGED lastStep

\* failJob and succeedJob return
RunAfterReport ==
    /\ rpc = "afterReport"
    /\ ret' = IF reportFor = "failed" THEN FailJobError
              ELSE SucceedJobError(TRUE, repRet = "nil")
    /\ rpc' = "defers"
    /\ UNCHANGED <<jobs, callbackURL, defers, logFile, workDir, secretDir,
                   container,
                   reason>>
    /\ ReportFrame /\ HistoryFrame /\ RunFrame
    /\ UNCHANGED lastStep

\* Run returns: the deferred calls run, the one deferred last first. The
\* error of Stop is only logged, the results of Close and RemoveAll are
\* dropped
RunDefer(rmOK) ==
    /\ rpc = "defers"
    /\ defers # << >>
    /\ LET call == defers[Len(defers)]
       IN  /\ logFile' = IF call = "logFile.Close" THEN "closed" ELSE logFile
           /\ workDir' = IF call = "RemoveAll(workDir)" THEN FALSE
                         ELSE workDir
           /\ secretDir' = IF call = "cleanupSecrets" THEN FALSE
                           ELSE secretDir
           /\ container' = IF call = "ephemeralSession.Stop"
                           THEN DockerRm(container, rmOK) ELSE container
           /\ rmFailed' = (rmFailed \/
                             (call = "ephemeralSession.Stop" /\ ~rmOK))
    /\ defers' = SubSeq(defers, 1, Len(defers) - 1)
    /\ UNCHANGED <<jobs, callbackURL, rpc, reason, ret, wasBuilding,
                   cliContainer,
                   failStored, overran>>
    /\ ReportFrame /\ RunFrame
    /\ UNCHANGED lastStep
    /\ UNCHANGED cliExit

\* worker.Run() has returned into the goroutine of tryToDispatchJob
RunReturn ==
    /\ rpc = "defers"
    /\ defers = << >>
    /\ rpc' = "returned"
    /\ workers' = SetToBag({Goroutine(RunJob, AfterRun(ret))})
    /\ UNCHANGED <<jobs, clock, submissions, activeBuilds, newJobSignal, dpc,
                   maxConcurrent, maxRetries, faults, stopStatus,
                   claimedSinceStart, fnVars, kitVars, cmdVars>>
    /\ UNCHANGED <<callbackURL, defers, logFile, workDir, secretDir, container,
                   reason, ret>>
    /\ ReportFrame /\ HistoryFrame
    /\ UNCHANGED lastStep

RunNext ==
    \/ \E ok \in BOOLEAN : RunCreateLog(ok)
    \/ \E ok \in BOOLEAN : RunUpdateLogPath(ok)
    \/ \E ok \in BOOLEAN : RunSetBuilding(ok)
    \/ \E ok \in BOOLEAN : RunMkWorkspace(ok)
    \/ \E okClone, late \in BOOLEAN : RunClone(okClone, late)
    \/ \E n \in DOMAIN Checkouts, out \in CheckoutOutcomes, late \in BOOLEAN :
           RunCheckout(n, out, late)
    \/ \E env, ok \in BOOLEAN : RunEnvPlan(env, ok)
    \/ \E secrets \in BOOLEAN, out \in PrepareOutcomes :
           RunSecrets(secrets, out)
    \/ \E network \in BOOLEAN : RunNetwork(network)
    \/ \E out \in StartOutcomes, rmOK \in BOOLEAN : RunStartKit(out, rmOK)
    \/ \E dockerfile, autoBuild \in BOOLEAN, out \in DetectOutcomes,
          okStore \in BOOLEAN :
           RunStrategy(dockerfile, autoBuild, out, okStore)
    \/ \E okBuild, late \in BOOLEAN : RunBuild(okBuild, late)
    \/ \E okTag \in BOOLEAN : RunUpdateImageTag(okTag)
    \/ \E ok \in BOOLEAN : RunSucceedJob(ok)
    \/ \E ok \in BOOLEAN : RunFailJob(ok)
    \/ RunReport
    \/ \E outcome \in PostOutcomes : RunPost(outcome)
    \/ RunAfterReport
    \/ \E rmOK \in BOOLEAN : RunDefer(rmOK)
    \/ RunReturn
    \/ \E g \in Goroutines :
           \E out \in HandleOutcomes(g.job) : HandleFailedJob(g, out)
    \/ \E g \in Goroutines : GoroutineExit(g)

RunSpec == RunInit /\ [][RunNext]_vars

\* every statement of the run comes to an end: the commands and the store
\* calls return, the HTTP client has a timeout of 30 seconds and the backoff
\* sleeps are finite
RunFairSpec == RunInit /\ [][RunNext]_vars /\ WF_vars(RunNext)

(* ------------------------------ allowlist ------------------------------ *)
\* a string is a sequence of characters; the kinds of character that
\* IsCommandAllowed tells apart: a letter and a colon (both in the class of
\* wildcardMatch), a blank, a semicolon (neither is) and the asterisk
Chars == {"a", ":", " ", ";", "*"}

Strings(n) == UNION {[1..k -> Chars] : k \in 0..n}

\* the process is not started and its table is empty
ProcessIdle == KitIdle /\ CmdIdle /\ Instance(0, 1, 0)

\* the step that returns a function's value
FnFrame == UNCHANGED <<sysVars, runVars, fnCall, kitVars, cmdVars>>

RECURSIVE TrimLeft(_)
TrimLeft(s) == IF Len(s) > 0 /\ Head(s) = " " THEN TrimLeft(Tail(s)) ELSE s

RECURSIVE TrimRight(_)
TrimRight(s) ==
    IF Len(s) > 0 /\ s[Len(s)] = " "
    THEN TrimRight(SubSeq(s, 1, Len(s) - 1)) ELSE s

\* strings.TrimSpace
TrimSpace(s) == TrimRight(TrimLeft(s))

\* strings.HasPrefix and strings.Contains for strings given as pieces
HasPrefix(s, prefix) ==
    Len(prefix) <= Len(s) /\ SubSeq(s, 1, Len(prefix)) = prefix

ContainsPieces(s, sub) ==
    \E i \in 0..(Len(s) - Len(sub)) : SubSeq(s, i + 1, i + Len(sub)) = sub

\* strings.Contains(s, c) for a one-character c
Contains(s, c) == \E i \in 1..Len(s) : s[i] = c

\* strings.Split(s, sep) for a one-character sep: n separators, n + 1 parts
RECURSIVE Split(_, _)
Split(s, sep) ==
    IF ~Contains(s, sep) THEN <<s>>
    ELSE LET i == CHOOSE i \in 1..Len(s) :
                      s[i] = sep /\ \A k \in 1..(i - 1) : s[k] # sep
         IN <<SubSeq(s, 1, i - 1)>> \o Split(SubSeq(s, i + 1, Len(s)), sep)

\* the pieces of the paths and script names in the commands of the
\* detector, each made of characters of the class only
ClassPieces ==
    {".", "/", "...", "cmd", "B", "app", "start", "serve", "preview", "dev",
     "prod", "build", "test", "Zap", "server.js"}

WildcardAnyChar == Chars

\* the class [A-Za-z0-9:._/\-] that stands for a wildcard
WildcardClass == {"a", ":"} \cup ClassPieces

\* regexp.QuoteMeta(part): every character of part stands for itself
QuoteMeta(part) == [i \in 1..Len(part) |-> [kind |-> "literal", c |-> part[i]]]

\* the expression wildcardMatch builds between ^ and $: the quoted parts
\* with the class, repeated once or more, between them
RECURSIVE WildcardRegexp(_, _)
WildcardRegexp(parts, i) ==
    IF i > Len(parts) THEN << >>
    ELSE QuoteMeta(parts[i])
         \o (IF i < Len(parts) THEN <<[kind |-> "class+", c |-> ""]>>
             ELSE << >>)
         \o WildcardRegexp(parts, i + 1)

\* regexp.MatchString of ^re$ on value
RECURSIVE MatchString(_, _)
MatchString(re, value) ==
    IF Len(re) = 0 THEN Len(value) = 0
    ELSE IF Head(re).kind = "literal"
    THEN /\ Len(value) > 0
         /\ Head(value) = Head(re).c
         /\ MatchString(Tail(re), Tail(value))
    ELSE \E k \in 1..Len(value) :
             /\ \A i \in 1..k : value[i] \in WildcardClass
             /\ MatchString(Tail(re), SubSeq(value, k + 1, Len(value)))

wildcardMatch(pattern, value) ==
    MatchString(WildcardRegexp(Split(pattern, "*"), 1), value)

\* the loop returns true at the first pattern that matches
IsCommandAllowed(cmd, allowed) ==
    LET c == TrimSpace(cmd)
    IN IF Len(c) = 0 THEN FALSE
       ELSE \E n \in 1..Len(allowed) :
                LET pattern == TrimSpace(allowed[n])
                IN /\ Len(pattern) > 0
                   /\ \/ pattern = c
                      \/ Contains(pattern, "*") /\ wildcardMatch(pattern, c)

\* the allow-lists of the calls: the pattern alone, or before or after
\* another entry
OtherEntries == {<< >>, <<" ">>, <<"a">>}

AllowLists(p) ==
    {<<p>>} \cup {<<q, p>> : q \in OtherEntries}
            \cup {<<p, q>> : q \in OtherEntries}

AllowlistInit ==
    /\ ProcessIdle
    /\ \E c \in Strings(MaxCmdLen), p \in Strings(MaxPatLen) :
          \E a \in AllowLists(p) :
              fnCall = [fn |-> "IsCommandAllowed", cmd |-> c, allowed |-> a]
    /\ fnResult = << >>

CallIsCommandAllowed ==
    /\ fnCall.fn = "IsCommandAllowed"
    /\ fnResult = << >>
    /\ fnResult' = <<IsCommandAllowed(fnCall.cmd, fnCall.allowed)>>
    /\ FnFrame

AllowlistSpec == AllowlistInit /\ [][CallIsCommandAllowed]_vars

(* ------------------------------ autodetect ----------------------------- *)
\* the runtimes DetectRuntime returns
Runtimes == {"bun", "node", "python", "go", "php", "java", "static", "unknown"}

Slots == {"prebuild", "build", "run"}

\* sequences of at most n elements of S
SeqsUpTo(S, n) == UNION {[1..k -> S] : k \in 0..n}

\* commands the detector proposes, a letter for each word: "go build",
\* "go", "go;build"
CandidateInputs == {<<"a", " ", "a">>, <<"a">>, <<"a", ";">>}

\* entries of an allow-list: "go build", "go *", "go", a blank entry
PatternInputs == {<<"a", " ", "a">>, <<"a", " ", "*">>, <<"a">>, <<" ">>}

\* the fixed commands of the bun case, a letter for each word: bun install,
\* bun run build, bun run start
BunCommand(slot) ==
    IF slot = "prebuild" THEN <<"a", " ", "a">>
    ELSE <<"a", " ", "a", " ", "a">>

pickAllowed(preferred, allowed) ==
    IF IsCommandAllowed(preferred, allowed) THEN preferred
    ELSE IF Len(allowed) > 0 THEN allowed[1]
    ELSE << >>

RECURSIVE pickFirstAllowed(_, _)
pickFirstAllowed(candidates, allowed) ==
    IF Len(candidates) = 0 THEN << >>
    ELSE IF IsCommandAllowed(Head(candidates), allowed) THEN Head(candidates)
    ELSE pickFirstAllowed(Tail(candidates), allowed)

\* the ordered candidates of a runtime for a slot; found: the list that
\* detectNodeCommands, detectPythonCommands, detectGoCommands or
\* detectJavaCommands computes for the slot from the repository
Candidates(runtime, slot, found) ==
    IF runtime = "bun" THEN <<BunCommand(slot)>>
    ELSE IF runtime \in {"node", "python", "go", "java"} THEN found
    ELSE << >>

\* the command detectCommandsWithPath returns for a slot; allowed: the
\* allow-list of the slot
detectCommandsWithPath(runtime, slot, found, allowed) ==
    IF runtime = "static" THEN << >>
    ELSE IF runtime = "bun" THEN pickAllowed(BunCommand(slot), allowed)
    ELSE IF runtime \in {"node", "python", "go", "java"}
    THEN pickFirstAllowed(Candidates(runtime, slot, found), allowed)
    ELSE << >>

DetectInit ==
    /\ ProcessIdle
    /\ \E runtime \in Runtimes, slot \in Slots :
          \E found \in SeqsUpTo(CandidateInputs, MaxCandidates),
             allowed \in SeqsUpTo(PatternInputs, MaxAllowed) :
              fnCall = [fn |-> "detectCommandsWithPath", runtime |-> runtime,
                        slot |-> slot, found |-> found, allowed |-> allowed]
    /\ fnResult = << >>

CallDetectCommands ==
    /\ fnCall.fn = "detectCommandsWithPath"
    /\ fnResult = << >>
    /\ fnResult' = <<detectCommandsWithPath(fnCall.runtime, fnCall.slot,
                                            fnCall.found, fnCall.allowed)>>
    /\ FnFrame

DetectSpec == DetectInit /\ [][CallDetectCommands]_vars

(* --------------------------- Go repositories --------------------------- *)
\* a file of the repository: the directory it is in, as the names from the
\* root down, its name, and whether its text holds both package main and
\* func main(
GoFile(dir, name, main) == [dir |-> dir, name |-> name, main |-> main]

\* the files of the repositories: a main file at the root, in cmd/a, cmd/B,
\* app, cmd, vendor/a and the dot-directory .x; and in a/ a test file and a
\* text file with a main function and a Go file without one
GoFiles ==
    {GoFile(d, "main.go", TRUE) :
        d \in {<< >>, <<"cmd", "a">>, <<"cmd", "B">>, <<"app">>, <<"cmd">>,
               <<"vendor", "a">>, <<".x">>}}
        \cup {GoFile(<<"a">>, "main_test.go", TRUE),
              GoFile(<<"a">>, "main.txt", TRUE),
              GoFile(<<"a">>, "main.go", FALSE)}

\* WalkDir: the directories that are skipped with all that is below them
SkippedDir(name) ==
    name \in {".git", "vendor", "node_modules"} \/ name \in {".x"}

\* . for the root and ./ followed by the slash-separated path otherwise, as
\* pieces
RECURSIVE Entrypoint(_)
Entrypoint(dir) ==
    IF Len(dir) = 0 THEN <<".">>
    ELSE IF Len(dir) = 1 THEN <<".", "/", dir[1]>>
    ELSE Entrypoint(SubSeq(dir, 1, Len(dir) - 1)) \o <<"/", dir[Len(dir)]>>

\* the entrypoints in the order of their lower-cased strings
GoEntrypointOrder ==
    <<Entrypoint(<< >>), Entrypoint(<<"a">>), Entrypoint(<<"app">>),
      Entrypoint(<<"cmd">>), Entrypoint(<<"cmd", "a">>),
      Entrypoint(<<"cmd", "B">>), Entrypoint(<<"vendor", "a">>),
      Entrypoint(<<".x">>)>>

\* discoverGoMainEntrypoints: the directories, outside the skipped ones,
\* of the files named *.go and not *_test.go that hold a main function,
\* each once, sorted by their lower-cased strings
discoverGoMainEntrypoints(files) ==
    LET found == {Entrypoint(f.dir) :
                     f \in {g \in files :
                               /\ \A i \in 1..Len(g.dir) : ~SkippedDir(g.dir[i])
                               /\ g.name = "main.go"
                               /\ g.main}}
    IN SelectSeq(GoEntrypointOrder, LAMBDA e : e \in found)

detectGoEntrypointRootFirst(files) ==
    LET entrypoints == discoverGoMainEntrypoints(files)
    IN  IF Len(entrypoints) = 0 THEN << >>
        ELSE IF \E i \in 1..Len(entrypoints) : entrypoints[i] = <<".">>
        THEN <<".">>
        ELSE entrypoints[1]

\* detectGoEntrypoint, for a repoPath that is not empty; << >> is the
\* empty string
detectGoEntrypoint(files) ==
    LET entrypoints == discoverGoMainEntrypoints(files)
        cmds == SelectSeq(entrypoints,
                          LAMBDA e : HasPrefix(e, <<".", "/", "cmd", "/">>))
    IN  IF Len(entrypoints) = 0 THEN << >>
        ELSE IF Len(cmds) > 0 THEN cmds[1]
        ELSE IF \E i \in 1..Len(entrypoints) : entrypoints[i] = <<".">>
        THEN <<".">>
        ELSE entrypoints[1]

\* the commands of detectGoCommands, a piece for the words that no pattern
\* of the allow-lists cuts
GoBuildApp(entrypoint) == <<"go build -o app", " ">> \o entrypoint

GoBuildAll == <<"go build", " ", ".", "/", "...">>

GoRun(entrypoint) == <<"go run", " ">> \o entrypoint

GoApp == <<".", "/", "app">>

\* detectGoCommands: the candidates of the three slots, and of each slot
\* the first one its allow-list permits
detectGoCommands(files, goWork, allowed) ==
    LET entrypoint == detectGoEntrypoint(files)
        prebuildCandidates ==
            (IF goWork THEN <<<<"go work sync">>>> ELSE << >>)
                \o <<<<"go mod download">>>>
        buildCandidates ==
            (IF entrypoint # << >> THEN <<GoBuildApp(entrypoint)>> ELSE << >>)
                \o <<GoBuildAll>>
        runCandidates ==
            (IF entrypoint = << >> THEN << >>
             ELSE IF entrypoint = <<".">> THEN <<GoApp>>
             ELSE <<GoApp, GoRun(entrypoint)>>)
                \o <<GoRun(<<".">>), <<"go run main.go">>>>
    IN  [prebuild |-> pickFirstAllowed(prebuildCandidates, allowed.prebuild),
         build |-> pickFirstAllowed(buildCandidates, allowed.build),
         run |-> pickFirstAllowed(runCandidates, allowed.run)]

\* the entries of the allow-lists for build: go build -o app ., go build -o
\* app ./cmd/*, go build -o app ./*, go build ./...
GoBuildPatterns ==
    <<GoBuildApp(<<".">>), GoBuildApp(<<".", "/", "cmd", "/", "*">>),
      GoBuildApp(<<".", "/", "*">>), GoBuildAll>>

\* the entries of the allow-lists for run: ./app, go run *
GoRunPatterns == <<GoApp, GoRun(<<"*">>)>>

\* the lists that hold some of the entries, in their order
SubLists(patterns) ==
    {SelectSeq(patterns, LAMBDA q : q \in S) :
        S \in SUBSET {patterns[i] : i \in 1..Len(patterns)}}

GoInit ==
    /\ ProcessIdle
    /\ \E files \in SUBSET GoFiles, goWork \in BOOLEAN,
          build \in SubLists(GoBuildPatterns),
          run \in SubLists(GoRunPatterns) :
           fnCall = [fn |-> "detectGoCommands", files |-> files,
                     goWork |-> goWork,
                     allowed |-> [prebuild |-> <<<<"go mod download">>>>,
                                  build |-> build, run |-> run]]
    /\ fnResult = << >>

\* detectCommandsWithPath: case "go"
CallDetectGoCommands ==
    /\ fnCall.fn = "detectGoCommands"
    /\ fnResult = << >>
    /\ fnResult' = <<detectGoCommands(fnCall.files, fnCall.goWork,
                                      fnCall.allowed)>>
    /\ FnFrame

GoSpec == GoInit /\ [][CallDetectGoCommands]_vars

(* -------------------------- Node repositories -------------------------- *)
\* the names of the scripts of package.json, as pieces: start, serve, dev,
\* dev:a, a:prod, build, test:a, Zap and a. Every script has a command
NodeScriptNames ==
    {<<"start">>, <<"serve">>, <<"dev">>, <<"dev", ":", "a">>,
     <<"a", ":", "prod">>, <<"build">>, <<"test", ":", "a">>, <<"Zap">>,
     <<"a">>}

\* the names in the order of their lower-cased strings
NodeScriptOrder ==
    <<<<"a">>, <<"a", ":", "prod">>, <<"build">>, <<"dev">>,
      <<"dev", ":", "a">>, <<"serve">>, <<"start">>, <<"test", ":", "a">>,
      <<"Zap">>>>

PackageManagers == {"npm", "pnpm", "yarn"}

\* strings.ToLower of a script name
ToLowerName(name) ==
    [i \in 1..Len(name) |-> IF name[i] = "Zap" THEN "zap" ELSE name[i]]

\* hasNodeScript: scripts maps the names to their commands
hasNodeScript(scripts, key) ==
    key \in DOMAIN scripts /\ Len(TrimSpace(scripts[key])) > 0

\* sortedScriptNames: the trimmed names that are not empty, sorted by
\* their lower-cased strings
sortedScriptNames(scripts) ==
    SelectSeq(NodeScriptOrder, LAMBDA n : n \in DOMAIN scripts)

nodeScriptCandidates(packageManager, script) ==
    IF packageManager = "pnpm"
    THEN <<<<"pnpm run", " ">> \o script, <<"pnpm", " ">> \o script>>
    ELSE IF packageManager = "yarn"
    THEN <<<<"yarn", " ">> \o script, <<"yarn run", " ">> \o script>>
    ELSE IF script = <<"start">>
    THEN <<<<"npm start">>, <<"npm run", " ", "start">>>>
    ELSE <<<<"npm run", " ">> \o script>>

\* isNodeUtilityScript: one of the ten names, or one of six of them
\* followed by a colon
isNodeUtilityScript(name) ==
    LET lower == ToLowerName(TrimSpace(name))
    IN  \/ lower \in {<<u>> : u \in {"build", "test", "lint", "typecheck",
                                      "format", "clean", "prepare",
                                      "preinstall", "postinstall",
                                      "install"}}
        \/ /\ Len(lower) > 1
           /\ lower[1] \in {"build", "test", "lint", "typecheck", "format",
                             "clean"}
           /\ lower[2] = ":"

\* the names a loop of nodeRunCandidates adds: addScript skips the names
\* that are not scripts and those already added
RECURSIVE addScripts(_, _, _)
addScripts(scripts, names, added) ==
    IF Len(names) = 0 THEN added
    ELSE addScripts(scripts, Tail(names),
             IF hasNodeScript(scripts, Head(names))
                /\ \A i \in 1..Len(added) : added[i] # Head(names)
             THEN Append(added, Head(names)) ELSE added)

\* the candidates of a sequence of names
RECURSIVE scriptCommands(_, _)
scriptCommands(packageManager, names) ==
    IF Len(names) = 0 THEN << >>
    ELSE nodeScriptCandidates(packageManager, Head(names))
             \o scriptCommands(packageManager, Tail(names))

\* nodeRunCandidates: the four names; the names that hold start, serve,
\* prod or preview; when no name was added, the first name that is not a
\* utility script; node server.js
nodeRunCandidates(packageManager, scripts) ==
    LET sorted == sortedScriptNames(scripts)
        four == addScripts(scripts, <<<<"start">>, <<"serve">>,
                                      <<"preview">>, <<"dev">>>>, << >>)
        holding ==
            SelectSeq(sorted,
                LAMBDA n : \E i \in 1..Len(n) :
                    ToLowerName(n)[i] \in {"start", "serve", "prod",
                                           "preview"})
        named == addScripts(scripts, holding, four)
        others == SelectSeq(sorted, LAMBDA n : ~isNodeUtilityScript(n))
        added == IF Len(named) = 0 /\ Len(others) > 0
                 THEN addScripts(scripts, <<others[1]>>, named)
                 ELSE named
    IN scriptCommands(packageManager, added)
           \o <<<<"node", " ", "server.js">>>>

\* the entries of the allow-lists for run: npm start, npm run *, npm run
\* dev:*, pnpm run *, yarn run *, node server.js
NodeRunPatterns ==
    <<<<"npm start">>, <<"npm run", " ", "*">>,
      <<"npm run", " ", "dev", ":", "*">>, <<"pnpm run", " ", "*">>,
      <<"yarn run", " ", "*">>, <<"node", " ", "server.js">>>>

NodeInit ==
    /\ ProcessIdle
    /\ \E names \in SUBSET NodeScriptNames,
          packageManager \in PackageManagers,
          run \in SubLists(NodeRunPatterns) :
           fnCall = [fn |-> "nodeRunCandidates",
                     packageManager |-> packageManager,
                     scripts |-> [n \in names |-> <<"x">>],
                     allowed |-> run]
    /\ fnResult = << >>

\* detectNodeCommands: the run candidates and the run command
CallNodeRunCandidates ==
    /\ fnCall.fn = "nodeRunCandidates"
    /\ fnResult = << >>
    /\ fnResult' =
           LET runCandidates ==
                   nodeRunCandidates(fnCall.packageManager, fnCall.scripts)
           IN <<[candidates |-> runCandidates,
                 run |-> pickFirstAllowed(runCandidates, fnCall.allowed)]>>
    /\ FnFrame

NodeSpec == NodeInit /\ [][CallNodeRunCandidates]_vars

(* --------------------------- runtime detection ------------------------ *)
\* the files DetectRuntime looks for at the top of the repository, and one
\* it does not look for
RepoFiles ==
    {"bun.lock", "package.json", "requirements.txt", "pyproject.toml",
     "setup.py", "Pipfile", "go.mod", "composer.json", "pom.xml",
     "build.gradle", "build.gradle.kts", "index.html", "README.md"}

\* isPythonProject, for a repoPath that is not empty
isPythonProject(files) ==
    \/ "requirements.txt" \in files
    \/ "pyproject.toml" \in files
    \/ "setup.py" \in files
    \/ "Pipfile" \in files

DetectRuntimeNodeLast(files) ==
    IF "bun.lock" \in files THEN "bun"
    ELSE IF isPythonProject(files) THEN "python"
    ELSE IF "go.mod" \in files THEN "go"
    ELSE IF "composer.json" \in files THEN "php"
    ELSE IF \/ "pom.xml" \in files
            \/ "build.gradle" \in files
            \/ "build.gradle.kts" \in files THEN "java"
    ELSE IF "index.html" \in files THEN "static"
    ELSE IF "package.json" \in files THEN "node"
    ELSE "unknown"

\* DetectRuntime: the runtime it returns
DetectRuntime(files) ==
    IF "bun.lock" \in files THEN "bun"
    ELSE IF "package.json" \in files THEN "node"
    ELSE IF isPythonProject(files) THEN "python"
    ELSE IF "go.mod" \in files THEN "go"
    ELSE IF "composer.json" \in files THEN "php"
    ELSE IF \/ "pom.xml" \in files
            \/ "build.gradle" \in files
            \/ "build.gradle.kts" \in files THEN "java"
    ELSE IF "index.html" \in files THEN "static"
    ELSE "unknown"

\* GenerateDockerfileWithBuildEnv: the runtimes of the switch; the default
\* case returns the error unsupported runtime
GenerateDockerfileOK(runtime) ==
    runtime \in {"node", "python", "go", "bun", "java", "static"}

\* AutoDetectBuildConfig: the runtime of the BuildConfig and whether the
\* error is nil
AutoDetectBuildConfig(files) ==
    [runtime |-> IF GenerateDockerfileOK(DetectRuntime(files))
                 THEN DetectRuntime(files) ELSE "",
     ok |-> GenerateDockerfileOK(DetectRuntime(files))]

RuntimeInit ==
    /\ ProcessIdle
    /\ \E files \in SUBSET RepoFiles :
          fnCall = [fn |-> "AutoDetectBuildConfig", files |-> files]
    /\ fnResult = << >>

\* Worker.Run: autodetect.AutoDetectBuildConfig(buildContext, w.allowlist)
CallAutoDetectBuildConfig ==
    /\ fnCall.fn = "AutoDetectBuildConfig"
    /\ fnResult = << >>
    /\ fnResult' = <<AutoDetectBuildConfig(fnCall.files)>>
    /\ FnFrame

RuntimeSpec == RuntimeInit /\ [][CallAutoDetectBuildConfig]_vars

(* ------------------------------- recipe -------------------------------- *)
\* keys and commands are sequences of characters. The build-arg keys A,
\* " A", B and a blank one; the secret keys S, T and a blank one; the
\* commands: none, a blank one, m, and " m'" with a single quote
RecipeArgKeys == {<<"A">>, <<" ", "A">>, <<"B">>, <<" ">>}

RecipeSecretKeys == {<<"S">>, <<"T">>, <<" ">>}

RecipeCommands == {<< >>, <<" ">>, <<"m">>, <<" ", "m", "'">>}

\* the trimmed keys in the order of Go's string comparison
RecipeKeyOrder ==
    <<<<"A">>, <<"B">>, <<"PORT">>, <<"S">>, <<"T">>, <<"X">>,
      <<"vite_", "x">>>>

\* a line of the recipe: the instruction, the keys it names (ARG: the key;
\* RUN: the ids of the secret mounts), whether the rest is wrapped in
\* sh -c '...', and the rest as a sequence of statements
RecipeLine(op, keys, sh, script) ==
    [op |-> op, keys |-> keys, sh |-> sh, script |-> script]

\* a statement: set -e, export KEY="$(cat /run/secrets/KEY)", or text
Stmt(stmt, arg) == [stmt |-> stmt, arg |-> arg]

\* normalizeKeys, the loop: keys are trimmed, empty and seen ones skipped
RECURSIVE TrimmedDistinct(_, _)
TrimmedDistinct(keys, out) ==
    IF Len(keys) = 0 THEN out
    ELSE LET key == TrimSpace(Head(keys))
         IN TrimmedDistinct(Tail(keys),
                IF Len(key) = 0 \/ \E i \in 1..Len(out) : out[i] = key
                THEN out ELSE Append(out, key))

normalizeKeysUnsorted(keys) == TrimmedDistinct(keys, << >>)

\* normalizeKeys: the loop, then sort.Strings
normalizeKeys(keys) ==
    LET out == TrimmedDistinct(keys, << >>)
    IN SelectSeq(RecipeKeyOrder, LAMBDA k : \E i \in 1..Len(out) : out[i] = k)

\* one ARG line for each key
renderArgLines(keys) ==
    [i \in 1..Len(keys) |-> RecipeLine("ARG", <<keys[i]>>, FALSE, << >>)]

\* strings.ReplaceAll(value, "'", "'\"'\"'")
escapeSingleQuotes(value) ==
    [i \in 1..Len(value) |-> IF value[i] = "'" THEN "'\"'\"'" ELSE value[i]]

renderRunLinePlain(command, secretBuildKeys) ==
    IF Len(TrimSpace(command)) = 0 THEN << >>
    ELSE <<RecipeLine("RUN", << >>, FALSE,
                      <<Stmt("text", TrimSpace(command))>>)>>

\* no line for a command that is empty once trimmed; RUN command without
\* secret keys; else RUN with a mount for each key and, in sh -c, set -e,
\* an export for each key and the command, single quotes escaped
renderRunLine(command, secretBuildKeys) ==
    IF Len(TrimSpace(command)) = 0 THEN << >>
    ELSE IF Len(secretBuildKeys) = 0
    THEN <<RecipeLine("RUN", << >>, FALSE,
                      <<Stmt("text", TrimSpace(command))>>)>>
    ELSE <<RecipeLine("RUN", secretBuildKeys, TRUE,
              <<Stmt("set -e", << >>)>>
                  \o [i \in 1..Len(secretBuildKeys) |->
                         Stmt("export", secretBuildKeys[i])]
                  \o <<Stmt("text",
                            escapeSingleQuotes(TrimSpace(command)))>>)>>

renderCmdLine(command) ==
    IF Len(TrimSpace(command)) = 0 THEN << >>
    ELSE <<RecipeLine("CMD", << >>, FALSE,
                      <<Stmt("text", TrimSpace(command))>>)>>

\* a line that holds neither a key nor a command
FixedLine(op, text) == RecipeLine(op, << >>, FALSE, <<Stmt("text", <<text>>)>>)

generateStaticDockerfile ==
    <<FixedLine("FROM", "nginx:alpine"),
      FixedLine("WORKDIR", "/usr/share/nginx/html"),
      FixedLine("COPY", ". ."), FixedLine("EXPOSE", "80"),
      FixedLine("CMD", "[\"nginx\", \"-g\", \"daemon off;\"]")>>

\* generateAppDockerfile(baseImage, exposePort, prebuildCommand,
\* buildCommand, runCommand, buildArgKeys, secretBuildKeys)
generateAppDockerfile(image, port, prebuild, build, run, args, secrets) ==
    <<FixedLine("FROM", image), FixedLine("WORKDIR", "/app"),
      FixedLine("COPY", ". .")>>
        \o renderArgLines(normalizeKeys(args))
        \o renderRunLine(prebuild, normalizeKeys(secrets))
        \o renderRunLine(build, normalizeKeys(secrets))
        \o <<FixedLine("EXPOSE", port)>>
        \o renderCmdLine(run)

\* the base image and the port of the app runtimes, the version left out;
\* no command of RecipeCommands names gradle or mvn
BaseImage ==
    [node |-> "node:-alpine", python |-> "python:-slim",
     go |-> "golang:-alpine", bun |-> "oven/bun:",
     java |-> "eclipse-temurin:-jdk"]

ExposePort ==
    [node |-> "3000", python |-> "8000", go |-> "8080", bun |-> "3000",
     java |-> "8080"]

\* GenerateDockerfileWithBuildEnv(runtime, version, prebuildCommand,
\* buildCommand, runCommand, buildArgKeys, secretBuildKeys), the version
\* left out: the recipe as its lines, and whether the error is nil
GenerateDockerfileWithBuildEnv(runtime, prebuild, build, run, args, secrets) ==
    IF runtime \in DOMAIN BaseImage
    THEN [ok |-> TRUE,
          lines |-> generateAppDockerfile(BaseImage[runtime],
                        ExposePort[runtime], prebuild, build, run, args,
                        secrets)]
    ELSE IF runtime = "static"
    THEN [ok |-> TRUE, lines |-> generateStaticDockerfile]
    ELSE [ok |-> FALSE, lines |-> << >>]

RecipeInit ==
    /\ ProcessIdle
    /\ \E runtime \in Runtimes \ {"php"},
          prebuild, build \in RecipeCommands,
          buildArgKeys \in SeqsUpTo(RecipeArgKeys, MaxRecipeKeys),
          secretBuildKeys \in SeqsUpTo(RecipeSecretKeys, MaxRecipeKeys) :
           fnCall = [fn |-> "GenerateDockerfileWithBuildEnv",
                     runtime |-> runtime, prebuild |-> prebuild,
                     build |-> build, run |-> <<"r">>,
                     buildArgKeys |-> buildArgKeys,
                     secretBuildKeys |-> secretBuildKeys]
    /\ fnResult = << >>

\* Worker.Run: autodetect.GenerateDockerfileWithBuildEnv(...)
CallGenerateDockerfile ==
    /\ fnCall.fn = "GenerateDockerfileWithBuildEnv"
    /\ fnResult = << >>
    /\ fnResult' =
           <<GenerateDockerfileWithBuildEnv(fnCall.runtime, fnCall.prebuild,
                 fnCall.build, fnCall.run, fnCall.buildArgKeys,
                 fnCall.secretBuildKeys)>>
    /\ FnFrame

RecipeSpec == RecipeInit /\ [][CallGenerateDockerfile]_vars

(* ------------------------------- envplan ------------------------------- *)
\* a key is a sequence of pieces whose concatenation is the string: a prefix
\* or a word the planner looks for, a blank, or other text. The keys of the
\* env maps: X, " X", vite_x, PORT and the blank key
RawKeys == {<<"X">>, <<" ", "X">>, <<"vite_", "x">>, <<"PORT">>, <<" ">>}

EnvValues == {"1", "2"}

\* strings.ToUpper
ToUpper(key) ==
    [i \in 1..Len(key) |->
        IF key[i] = "vite_" THEN "VITE_" ELSE IF key[i] = "x" THEN "X"
        ELSE IF key[i] = "port" THEN "PORT" ELSE key[i]]

\* the trimmed keys in the order of Go's string comparison
KeyOrder == <<<<"PORT">>, <<"X">>, <<"vite_", "x">>>>

\* sort.Strings of the keys of a map
SortStrings(S) == SelectSeq(KeyOrder, LAMBDA k : k \in S)

publicEnvPrefixes ==
    {"NEXT_PUBLIC_", "VITE_", "REACT_APP_", "NUXT_PUBLIC_", "PUBLIC_",
     "EXPO_PUBLIC_", "GATSBY_", "SVELTEKIT_PUBLIC_"}

runtimePreferredKeys ==
    {"DATABASE_URL", "REDIS_URL", "MONGODB_URI", "PORT", "NODE_ENV", "HOST",
     "TZ", "LOG_LEVEL"}

runtimePreferredPrefixes ==
    {"DB_", "DATABASE_", "REDIS_", "POSTGRES_", "PG_", "MYSQL_", "MONGO_",
     "JWT_", "SESSION_", "COOKIE_", "SMTP_", "MAIL_"}

nonSecretKeys == {"PORT", "NODE_ENV", "HOST", "TZ", "APP_ENV", "LOG_LEVEL"}

secretMarkers ==
    {"SECRET", "TOKEN", "PASSWORD", "PRIVATE_KEY", "API_KEY", "ACCESS_KEY",
     "CREDENTIAL", "AUTH", "CERT", "DATABASE_URL", "REDIS_URL",
     "CONNECTION_STRING"}

hasAnyPrefix(key, prefixes) == Len(key) > 0 /\ key[1] \in prefixes

\* the key is a member of a set of whole keys
IsKeyOf(key, keys) == Len(key) = 1 /\ key[1] \in keys

isRuntimePreferred(key) ==
    IsKeyOf(key, runtimePreferredKeys)
        \/ hasAnyPrefix(key, runtimePreferredPrefixes)

\* a line of the upper-cased Dockerfile, as far as the planner tells lines
\* apart: ARG KEY, ARG KEY=value, text that holds $KEY, text that holds
\* ${KEY}, and text without a key
LineKinds == {"ARG", "ARG=", "$", "${}", "text"}

Line(kind, key) == [kind |-> kind, key |-> key]

\* the declaration of an ARG line is the key, or starts with the key and =
hasDockerfileArg(content, key) ==
    \E l \in content : l.kind \in {"ARG", "ARG="} /\ l.key = key

buildReferenceConfigFirst(key, hints) ==
    IF \E content \in hints.configContents : ContainsPieces(content, key)
    THEN "build-config-reference"
    ELSE IF hints.dockerfileContent # {}
            /\ hasDockerfileArg(hints.dockerfileContent, key)
    THEN "dockerfile-arg"
    ELSE IF hints.dockerfileContent # {}
            /\ \E l \in hints.dockerfileContent :
                   \/ l.kind = "$" /\ HasPrefix(l.key, key)
                   \/ l.kind = "${}" /\ l.key = key
    THEN "dockerfile-reference"
    ELSE ""

\* hints: the upper-cased Dockerfile as the set of its lines, empty for a
\* missing or empty file, and the upper-cased build-config files that are
\* not empty. $KEY is also found at the start of a longer name
buildReferenceReason(key, hints) ==
    IF hints.dockerfileContent # {}
       /\ hasDockerfileArg(hints.dockerfileContent, key)
    THEN "dockerfile-arg"
    ELSE IF hints.dockerfileContent # {}
            /\ \E l \in hints.dockerfileContent :
                   \/ l.kind = "$" /\ HasPrefix(l.key, key)
                   \/ l.kind = "${}" /\ l.key = key
    THEN "dockerfile-reference"
    ELSE IF \E content \in hints.configContents : ContainsPieces(content, key)
    THEN "build-config-reference"
    ELSE ""

\* what a build context holds about a key of the env map: nothing, an ARG
\* line of the Dockerfile, or a config file that names it
HintReasons == {"", "dockerfile-arg", "build-config-reference"}

\* collectBuildHints on a build context that holds, for each key, what f
\* says
collectBuildHints(f) ==
    [dockerfileContent |->
         {Line("ARG", k) : k \in {u \in DOMAIN f : f[u] = "dockerfile-arg"}},
     configContents |->
         {u \in DOMAIN f : f[u] = "build-config-reference"}]

\* a reason is the sequence of the parts it is concatenated from
classifyScope(key, hints) ==
    IF hasAnyPrefix(key, publicEnvPrefixes)
    THEN [scope |-> "both", reason |-> <<"public-prefix">>]
    ELSE IF buildReferenceReason(key, hints) # ""
    THEN IF isRuntimePreferred(key)
         THEN [scope |-> "both",
               reason |-> <<buildReferenceReason(key, hints),
                            "+runtime-signal">>]
         ELSE [scope |-> "build",
               reason |-> <<buildReferenceReason(key, hints)>>]
    ELSE IF isRuntimePreferred(key)
    THEN [scope |-> "runtime", reason |-> <<"runtime-signal">>]
    ELSE [scope |-> "runtime", reason |-> <<"default-runtime">>]

classifySecretByMarker(key) ==
    IF hasAnyPrefix(key, publicEnvPrefixes) THEN FALSE
    ELSE IF IsKeyOf(key, nonSecretKeys) THEN FALSE
    ELSE IF \E i \in 1..Len(key) : key[i] \in secretMarkers THEN TRUE
    ELSE FALSE

\* unknown keys default to secret, as keys with a marker do
classifySecret(key) ==
    IF hasAnyPrefix(key, publicEnvPrefixes) THEN FALSE
    ELSE IF IsKeyOf(key, nonSecretKeys) THEN FALSE
    ELSE IF \E i \in 1..Len(key) : key[i] \in secretMarkers THEN TRUE
    ELSE TRUE

\* the entry of a key before the overrides: a scope found through
\* dockerfile-arg clears the secret flag
AutoDetect(key, hints) ==
    LET upperKey == ToUpper(key)
        sr == classifyScope(upperKey, hints)
    IN [key |-> key, scope |-> sr.scope,
        secret |-> IF Head(sr.reason) = "dockerfile-arg" THEN FALSE
                   ELSE classifySecret(upperKey),
        reason |-> sr.reason]

\* storage.EnvOverride; secret is "nil", "true" or "false"
NoOverride == [present |-> FALSE, scope |-> "", secret |-> "nil"]

OverrideInputs ==
    {NoOverride,
     [present |-> TRUE, scope |-> "build", secret |-> "nil"],
     [present |-> TRUE, scope |-> "runtime", secret |-> "false"],
     [present |-> TRUE, scope |-> "", secret |-> "true"],
     [present |-> TRUE, scope |-> "both", secret |-> "true"]}

\* the override step of the planner
ApplyOverride(entry, o) ==
    LET scoped == IF o.present /\ o.scope # ""
                  THEN [entry EXCEPT !.scope = o.scope,
                           !.reason = Append(@, "+override-scope")]
                  ELSE entry
    IN IF o.present /\ o.secret # "nil"
       THEN [scoped EXCEPT !.secret = (o.secret = "true"),
                !.reason = Append(@, "+override-secret")]
       ELSE scoped

\* the loop over env in the order the map iteration gives (order): keys are
\* trimmed, empty ones skipped, and a later key replaces an equal earlier one
RECURSIVE NormalizedEnv(_, _, _)
NormalizedEnv(env, order, m) ==
    IF Len(order) = 0 THEN m
    ELSE LET trimmed == TrimSpace(Head(order))
             next == IF Len(trimmed) = 0 THEN m
                     ELSE [k \in DOMAIN m \cup {trimmed} |->
                              IF k = trimmed THEN env[Head(order)] ELSE m[k]]
         IN NormalizedEnv(env, Tail(order), next)

PartitionBuildOnly(entries, normalizedEnv) ==
    LET Keys(secret) == {entries[i].key : i \in {n \in 1..Len(entries) :
                            /\ entries[n].scope = "build"
                            /\ entries[n].secret = secret}}
    IN [buildArgs |-> [k \in Keys(FALSE) |-> normalizedEnv[k]],
        buildSecrets |-> [k \in Keys(TRUE) |-> normalizedEnv[k]]]

PartitionAllArgs(entries, normalizedEnv) ==
    LET Keys == {entries[i].key : i \in {n \in 1..Len(entries) :
                            entries[n].scope \in {"build", "both"}}}
    IN [buildArgs |-> [k \in Keys |-> normalizedEnv[k]],
        buildSecrets |-> << >>]

\* keys of scope build or both go to buildSecrets when secret and to
\* buildArgs otherwise
Partition(entries, normalizedEnv) ==
    LET Keys(secret) == {entries[i].key : i \in {n \in 1..Len(entries) :
                            /\ entries[n].scope \in {"build", "both"}
                            /\ entries[n].secret = secret}}
    IN [buildArgs |-> [k \in Keys(FALSE) |-> normalizedEnv[k]],
        buildSecrets |-> [k \in Keys(TRUE) |-> normalizedEnv[k]]]

OverrideOf(overrides, key) ==
    IF key \in DOMAIN overrides THEN overrides[key] ELSE NoOverride

\* envplan.Resolve; sort.Slice leaves the entries, built in key order, as
\* they are
Resolve(env, hints, overrides, order) ==
    IF DOMAIN env = {}
    THEN [buildArgs |-> << >>, buildSecrets |-> << >>, entries |-> << >>]
    ELSE LET normalizedEnv == NormalizedEnv(env, order, << >>)
             keys == SortStrings(DOMAIN normalizedEnv)
             entries == [i \in 1..Len(keys) |->
                            ApplyOverride(AutoDetect(keys[i], hints),
                                          OverrideOf(overrides, keys[i]))]
             parts == Partition(entries, normalizedEnv)
         IN [buildArgs |-> parts.buildArgs,
             buildSecrets |-> parts.buildSecrets,
             entries |-> entries]

\* the orders in which a map with the keys S can be iterated
Orders(S) ==
    {o \in [1..Cardinality(S) -> S] :
        \A i, k \in 1..Cardinality(S) : o[i] = o[k] => i = k}

TrimmedKeys(S) == {TrimSpace(k) : k \in S} \ {<< >>}

ResolveInit ==
    /\ ProcessIdle
    /\ \E S \in {T \in SUBSET RawKeys : Cardinality(T) <= MaxEnvKeys} :
          \E env \in [S -> EnvValues],
             f \in [{ToUpper(k) : k \in TrimmedKeys(S)} -> HintReasons],
             overrides \in [TrimmedKeys(S) -> OverrideInputs] :
              fnCall = [fn |-> "Resolve", env |-> env,
                        hints |-> collectBuildHints(f),
                        overrides |-> overrides]
    /\ fnResult = << >>

\* one run of the planner; fnResult holds the results of the runs so far
CallResolve(order) ==
    /\ fnCall.fn = "Resolve"
    /\ Len(fnResult) < 2
    /\ fnResult' = Append(fnResult,
                          Resolve(fnCall.env, fnCall.hints, fnCall.overrides,
                                  order))
    /\ FnFrame

ResolveNext == \E order \in Orders(DOMAIN fnCall.env) : CallResolve(order)

ResolveSpec == ResolveInit /\ [][ResolveNext]_vars

\* the keys given to the classification of one key: unknown, with a public
\* prefix in either case, with a public prefix and a marker, with a public
\* prefix that is not at the start, the keys PORT (in either case) and
\* APP_ENV, a key that starts with PORT, a key with a marker, a
\* runtime-preferred key that is a marker, and a runtime-preferred prefix
ClassifyKeys ==
    {<<"X">>, <<"vite_", "x">>, <<"VITE_", "X">>, <<"VITE_", "TOKEN">>,
     <<"X", "VITE_">>, <<"PORT">>, <<"port">>, <<"APP_ENV">>,
     <<"PORT", "X">>, <<"API_", "TOKEN">>, <<"DATABASE_URL">>,
     <<"DB_", "X">>}

\* the lines a Dockerfile may hold about an upper-cased key: the five kinds
\* of line, and $KEYX
DockerLines(key) ==
    {Line(kind, key) : kind \in LineKinds \ {"text"}}
        \cup {Line("text", << >>), Line("$", key \o <<"X">>)}

\* the build-config files: one that names the key inside a longer word, one
\* that does not name it
ConfigFiles(key) == {<<"A_">> \o key \o <<"_B">>, <<"A_", "_B">>}

ClassifyInit ==
    /\ ProcessIdle
    /\ \E key \in ClassifyKeys :
          \E dockerfile \in SUBSET DockerLines(ToUpper(key)),
             configs \in SUBSET ConfigFiles(ToUpper(key)) :
              fnCall = [fn |-> "AutoDetect", key |-> key,
                        hints |-> [dockerfileContent |-> dockerfile,
                                   configContents |-> configs]]
    /\ fnResult = << >>

\* Resolve: the entry of one key of the loop over the sorted keys
CallAutoDetect ==
    /\ fnCall.fn = "AutoDetect"
    /\ fnResult = << >>
    /\ fnResult' = <<AutoDetect(fnCall.key, fnCall.hints)>>
    /\ FnFrame

ClassifySpec == ClassifyInit /\ [][CallAutoDetect]_vars

(* ------------------------------ image tag ------------------------------ *)
\* the kinds of character of the fields of an image tag: a lower-case
\* hexadecimal letter, another lower-case letter, an upper-case letter, a
\* digit, and the punctuation
TagChars == {"a", "g", "A", "0", "_", "-", "/", ".", ":", "T", "Z"}

\* the values of the fields: w.registry, job.UserID and job.ProjectID,
\* job.ID, job.SourceInfo.CommitSha
RegistryInputs == {<< >>, <<"a">>, <<"a", ":", "0">>, <<"a", "/", "a">>}

IdInputs == {<< >>, <<"a">>, <<"A", "_", "a">>, <<"a", ".">>}

JobIdInputs == {<< >>, <<"a", "0">>, <<"a", "-", "0">>}

ShaInputs ==
    UNION {[1..n -> {"a"}] : n \in 0..MaxShaLen} \cup {<<"g">>, <<"A">>}

\* time.Now().UTC().Format("20060102T150405Z"): eight digits, T, six digits, Z
Timestamp ==
    [i \in 1..8 |-> "0"] \o <<"T">> \o [i \in 1..6 |-> "0"] \o <<"Z">>

\* strings.ToLower(strings.ReplaceAll(s, "_", "-"))
sanitize(s) ==
    [i \in 1..Len(s) |->
        IF s[i] = "_" THEN "-"
        ELSE IF s[i] = "A" THEN "a"
        ELSE IF s[i] \in {"T", "Z"} THEN "g"
        ELSE s[i]]

\* Worker.generateImageTag
generateImageTag(registry, userID, projectID, commitSha, id) ==
    LET shortSha == IF Len(commitSha) > 12 THEN SubSeq(commitSha, 1, 12)
                    ELSE commitSha
    IN registry \o <<"/">> \o sanitize(userID) \o <<"/">>
       \o sanitize(projectID) \o <<":">> \o shortSha \o <<"-", "b">>
       \o id \o <<"-", "v">> \o Timestamp

ImageTagInit ==
    /\ ProcessIdle
    /\ \E registry \in RegistryInputs, userID, projectID \in IdInputs :
          \E commitSha \in ShaInputs, id \in JobIdInputs :
              fnCall = [fn |-> "generateImageTag", registry |-> registry,
                        userID |-> userID, projectID |-> projectID,
                        commitSha |-> commitSha, id |-> id]
    /\ fnResult = << >>

CallGenerateImageTag ==
    /\ fnCall.fn = "generateImageTag"
    /\ fnResult = << >>
    /\ fnResult' = <<generateImageTag(fnCall.registry, fnCall.userID,
                                      fnCall.projectID, fnCall.commitSha,
                                      fnCall.id)>>
    /\ FnFrame

ImageTagSpec == ImageTagInit /\ [][CallGenerateImageTag]_vars

(* ------------------------ command line in the log --------------------- *)
\* the pieces of text that matter in an argument: the marker redactBuildArg
\* looks for, the equals sign, another character and a blank
LogPieces == {"build-arg:", "=", "a", " "}

\* the values of BuildOpts.BuildArgs and BuildOpts.ImageTag
LogTexts == SeqsUpTo(LogPieces, MaxArgLen)

\* strings.Index(s, piece) counted from 1; 0 for -1
Index(s, piece) ==
    IF \E i \in DOMAIN s : s[i] = piece
    THEN CHOOSE i \in DOMAIN s :
             s[i] = piece /\ \A k \in 1..(i - 1) : s[k] # piece
    ELSE 0

\* strings.Join(elems, sep)
RECURSIVE Join(_, _)
Join(elems, sep) ==
    IF elems = << >> THEN << >>
    ELSE IF Len(elems) = 1 THEN elems[1]
    ELSE elems[1] \o <<sep>> \o Join(Tail(elems), sep)

\* the keys of BuildOpts.BuildArgs: the name of an environment variable
\* holds no equals sign
LogKeys == {key \in LogTexts : Index(key, "=") = 0}

\* BuildKit.BuildCommand: cmd.Args for one build-arg and no secret, the
\* fixed arguments before --opt left out
BuildCommand(key, value, imageTag) ==
    << <<"buildctl">>,
       <<"--opt">>, <<"build-arg:">> \o key \o <<"=">> \o value,
       <<"--output">>,
       <<"type", "=", "image,name", "=">> \o imageTag
           \o <<",push", "=", "true,registry.insecure", "=", "true">> >>

\* redactBuildArg
redactBuildArg(arg) ==
    LET idx == Index(arg, "build-arg:")
        eq == Index(SubSeq(arg, idx + 1, Len(arg)), "=")
    IN  IF idx = 0 THEN arg
        ELSE IF eq = 0 THEN arg
        ELSE SubSeq(arg, 1, idx + eq) \o <<"<redacted>">>

\* sanitizeCommandForLog
sanitizeCommandForLog(args) ==
    Join([i \in DOMAIN args |-> redactBuildArg(args[i])], " ")

LogInit ==
    /\ ProcessIdle
    /\ \E key \in LogKeys, value, imageTag \in LogTexts :
          fnCall = [fn |-> "sanitizeCommandForLog", key |-> key,
                    value |-> value, imageTag |-> imageTag]
    /\ fnResult = << >>

\* executeCommand: w.log("Executing: %s", sanitizeCommandForLog(cmd))
CallSanitizeCommandForLog ==
    /\ fnCall.fn = "sanitizeCommandForLog"
    /\ fnResult = << >>
    /\ fnResult' = <<sanitizeCommandForLog(
                       BuildCommand(fnCall.key, fnCall.value,
                                    fnCall.imageTag))>>
    /\ FnFrame

LogSpec == LogInit /\ [][CallSanitizeCommandForLog]_vars

(* ---------------------------- build secrets ---------------------------- *)
\* Worker.Run from the planner to the build command, for an env whose
\* values can be told apart: the value of a key is "value of" and the key
ValueOf(key) == <<"value of">> \o key

\* "%03d" of the index of a key
Indexes == <<"000", "001", "002", "003">>

\* sanitizeSecretFilename: letters, digits, "-", "_" and "." stay, any
\* other character becomes "_", and the empty name is "secret"
sanitizeSecretFilename(value) ==
    IF Len(value) = 0 THEN <<"secret">>
    ELSE [i \in 1..Len(value) |-> IF value[i] = " " THEN "_" ELSE value[i]]

\* the directory os.MkdirTemp makes for the job
SecretDir == <<"/tmp/hubfly-builder-secrets-b1-1">>

\* the path of the file of the key at index idx
SecretPath(idx, key) ==
    SecretDir \o <<"/", Indexes[idx], "_">> \o sanitizeSecretFilename(key)

\* prepareBuildSecrets with the value given as the source of the secret
prepareBuildSecretsInline(secretValues, ok) ==
    LET keys == SortStrings(DOMAIN secretValues)
    IN [ok |-> TRUE,
        secrets |-> [i \in 1..Len(keys) |->
                        [ID |-> keys[i], Src |-> secretValues[keys[i]]]],
        files |-> {}]

\* prepareBuildSecrets: one file of mode 0600 for each key, in the order of
\* the sorted keys; when MkdirTemp or a WriteFile fails (~ok) the directory
\* is removed and the error returned
prepareBuildSecrets(secretValues, ok) ==
    LET keys == SortStrings(DOMAIN secretValues)
    IN IF DOMAIN secretValues = {}
       THEN [ok |-> TRUE, secrets |-> << >>, files |-> {}]
       ELSE IF ~ok THEN [ok |-> FALSE, secrets |-> << >>, files |-> {}]
       ELSE [ok |-> TRUE,
             secrets |-> [i \in 1..Len(keys) |->
                             [ID |-> keys[i], Src |-> SecretPath(i, keys[i])]],
             files |-> {[path |-> SecretPath(i, keys[i]), mode |-> "0600",
                         content |-> secretValues[keys[i]]] :
                           i \in 1..Len(keys)}]

\* the --opt arguments of the build args, in the order of the sorted keys
RECURSIVE OptArgs(_, _)
OptArgs(buildArgs, keys) ==
    IF Len(keys) = 0 THEN << >>
    ELSE << <<"--opt">>,
            <<"build-arg:">> \o Head(keys) \o <<"=">>
                \o buildArgs[Head(keys)] >>
             \o OptArgs(buildArgs, Tail(keys))

\* the --secret arguments; sortedSecrets leaves the secrets, made in the
\* order of their ids, as they are
RECURSIVE SecretArgs(_)
SecretArgs(secrets) ==
    IF Len(secrets) = 0 THEN << >>
    ELSE << <<"--secret">>,
            <<"id", "=">> \o Head(secrets).ID \o <<",src", "=">>
                \o Head(secrets).Src >>
             \o SecretArgs(Tail(secrets))

\* BuildKit.BuildCommand: cmd.Args, the fixed arguments before the first
\* --opt left out
BuildCommandArgs(buildArgs, secrets, imageTag) ==
    << <<"buildctl">> >>
        \o OptArgs(buildArgs, SortStrings(DOMAIN buildArgs))
        \o SecretArgs(secrets)
        \o << <<"--output">>,
               <<"type", "=", "image,name", "=">> \o imageTag
                   \o <<",push", "=", "true,registry.insecure", "=",
                        "true">> >>

SecretInit ==
    /\ ProcessIdle
    /\ \E S \in {T \in SUBSET RawKeys : Cardinality(T) <= MaxEnvKeys} :
          \E f \in [{ToUpper(k) : k \in TrimmedKeys(S)} -> HintReasons],
             overrides \in [TrimmedKeys(S) -> OverrideInputs] :
              fnCall = [fn |-> "prepareBuildSecrets",
                        env |-> [k \in S |-> ValueOf(k)],
                        hints |-> collectBuildHints(f),
                        overrides |-> overrides]
    /\ fnResult = << >>

\* Worker.Run: envplan.Resolve, prepareBuildSecrets, the generated recipe of
\* an auto build, BuildCommand and the line executeCommand logs
CallPrepareBuildSecrets(order, ok) ==
    /\ fnCall.fn = "prepareBuildSecrets"
    /\ fnResult = << >>
    /\ LET envResult == Resolve(fnCall.env, fnCall.hints, fnCall.overrides,
                                order)
           prepared == prepareBuildSecrets(envResult.buildSecrets, ok)
           recipe ==
               GenerateDockerfileWithBuildEnv("node", <<"m">>, <<"m">>,
                   <<"r">>, SortStrings(DOMAIN envResult.buildArgs),
                   SortStrings(DOMAIN envResult.buildSecrets))
           args == BuildCommandArgs(envResult.buildArgs, prepared.secrets,
                                    <<"tag">>)
       IN fnResult' =
              <<[values |-> NormalizedEnv(fnCall.env, order, << >>),
                 entries |-> envResult.entries,
                 failed |-> ~prepared.ok,
                 files |-> prepared.files,
                 recipe |-> IF prepared.ok THEN recipe.lines ELSE << >>,
                 args |-> IF prepared.ok THEN args ELSE << >>,
                 logged |-> IF prepared.ok
                            THEN sanitizeCommandForLog(args) ELSE << >>]>>
    /\ FnFrame

SecretNext ==
    \E order \in Orders(DOMAIN fnCall.env), ok \in BOOLEAN :
        CallPrepareBuildSecrets(order, ok)

SecretSpec == SecretInit /\ [][SecretNext]_vars

(* ---------------------- ephemeral container names --------------------- *)
\* the kinds of character of a job id: a lower-case letter or digit, an
\* upper-case letter, a character that is replaced, a blank
IdChars == {"a", "A", "/", " "}

\* the ids of the jobs: the short ones and two longer than a container name
JobIds ==
    UNION {[1..n -> IdChars] : n \in 1..MaxIdLen}
        \cup {[i \in 1..n |-> "a"] :
                 n \in {containerNameMax + 1, containerNameMax + 2}}

\* strings.Trim(s, cutset)
RECURSIVE Trim(_, _)
Trim(s, cutset) ==
    IF Len(s) > 0 /\ Head(s) \in cutset THEN Trim(Tail(s), cutset)
    ELSE IF Len(s) > 0 /\ s[Len(s)] \in cutset
    THEN Trim(SubSeq(s, 1, Len(s) - 1), cutset)
    ELSE s

sanitizeContainerName(value) ==
    LET lowered == [i \in 1..Len(TrimSpace(value)) |->
                       IF TrimSpace(value)[i] = "A" THEN "a"
                       ELSE TrimSpace(value)[i]]
        replaced == [i \in 1..Len(lowered) |->
                        IF lowered[i] \in {"a", ".", "-", "_"}
                        THEN lowered[i] ELSE "-"]
        result == Trim(replaced, {"-", "_", "."})
    IN IF Len(lowered) = 0 \/ Len(result) = 0 THEN <<"j", "o", "b">>
       ELSE IF Len(result) > containerNameMax
       THEN SubSeq(result, 1, containerNameMax)
       ELSE result

\* containerName := "hubfly-buildkit-" + sanitizeContainerName(jobID)
ContainerName(jobID) ==
    <<"hubfly-buildkit-">> \o sanitizeContainerName(TrimSpace(jobID))

NoContainer == [state |-> "none", owner |-> 0]

\* two jobs with different ids have been claimed; a container of an
\* earlier process may be left under a name
KitInit ==
    /\ FnIdle /\ CmdIdle
    /\ Instance(0, 1, 0)
    /\ \E id1, id2 \in JobIds :
          /\ id1 # id2
          /\ jobIDs = <<id1, id2>>
          /\ docker \in [{ContainerName(id1), ContainerName(id2)} ->
                            {NoContainer, [state |-> "stale", owner |-> 0]}]
    /\ session = <<"none", "none">>

KitFrame == UNCHANGED <<sysVars, runVars, fnVars, jobIDs, cmdVars>>

\* StartEphemeralBuildKit of job j: the forced removal and docker run act
\* on whatever container has the name
KitStart(j, out, rmOK) ==
    /\ session[j] = "none"
    /\ IF Len(TrimSpace(jobIDs[j])) = 0
       THEN /\ session' = [session EXCEPT ![j] = "failed"]
            /\ UNCHANGED docker
       ELSE LET name == ContainerName(jobIDs[j])
                c == StartEphemeralBuildKit(docker[name].state, out, rmOK)
            IN /\ docker' =
                    IF out \in {"network failed", "remove failed"}
                    THEN docker
                    ELSE [docker EXCEPT ![name] =
                             IF c = "none" THEN NoContainer
                             ELSE [state |-> c, owner |-> j]]
               /\ session' = [session EXCEPT ![j] =
                                 IF StartSucceeded(out) THEN "started"
                                 ELSE "failed"]
    /\ KitFrame

\* EphemeralBuildKit.Stop of job j: docker rm -f of the name
KitStop(j, rmOK) ==
    /\ session[j] = "started"
    /\ docker' = [docker EXCEPT ![ContainerName(jobIDs[j])] =
                     IF DockerRm(@.state, rmOK) = "none" THEN NoContainer
                     ELSE @]
    /\ session' = [session EXCEPT ![j] = "stopped"]
    /\ KitFrame

KitNext ==
    \E j \in 1..2 :
        \/ \E out \in StartOutcomes, rmOK \in BOOLEAN : KitStart(j, out, rmOK)
        \/ \E rmOK \in BOOLEAN : KitStop(j, rmOK)

KitSpec == KitInit /\ [][KitNext]_vars

(* ---------------- process start and the orphaned containers ----------- *)
\* main statement by statement (dpc: down, reset, swept, select), the
\* dispatcher, and worker runs that start and stop their BuildKit
\* containers; a crash leaves the containers of the runs it kills. No job
\* is retried and the store calls succeed
SweepInit ==
    /\ FnIdle /\ CmdIdle
    /\ Instance(RetryNumJobs, RetryConcurrentCfg, 0)
    /\ jobIDs = [j \in Jobs |-> [i \in 1..j |-> "a"]]
    /\ docker \in [{ContainerName(jobIDs[j]) : j \in 1..RetryNumJobs} ->
                      {NoContainer, [state |-> "stale", owner |-> 0]}]
    /\ session = [j \in Jobs |-> "none"]

\* main: storage.ResetInProgressJobs()
MainReset ==
    /\ dpc = "down"
    /\ jobs' = ResetInProgressJobs(jobs)
    /\ dpc' = "reset"
    /\ claimedSinceStart' = FALSE
    /\ UNCHANGED <<clock, submissions, activeBuilds, newJobSignal, workers,
                   maxConcurrent, maxRetries, faults, stopStatus>>
    /\ UNCHANGED <<runVars, fnVars, kitVars, cmdVars>>

\* docker ps --filter label=...: every container StartEphemeralBuildKit
\* ran carries the label
Labelled(containers) ==
    {n \in DOMAIN containers : containers[n].state # "none"}

\* where the process calls CleanupOrphanedEphemeralBuildKits
SweepPointAnyTime == dpc \in {"reset", "select"}

SweepPoint == dpc = "reset"

\* CleanupOrphanedEphemeralBuildKits: docker rm -f of the listed
\* containers, up to the first removal that fails; removed are the ones
\* that were removed
CleanupOrphanedEphemeralBuildKits(containers, removed) ==
    [n \in DOMAIN containers |->
        IF n \in removed THEN [containers[n] EXCEPT !.state = "none"]
        ELSE containers[n]]

\* main: the sweep, whose error is only logged
MainSweep(removed) ==
    /\ SweepPoint
    /\ removed \subseteq Labelled(docker)
    /\ docker' = CleanupOrphanedEphemeralBuildKits(docker, removed)
    /\ dpc' = IF dpc = "reset" THEN "swept" ELSE dpc
    /\ UNCHANGED <<jobs, clock, submissions, activeBuilds, newJobSignal,
                   workers, maxConcurrent, maxRetries, faults, stopStatus,
                   claimedSinceStart>>
    /\ UNCHANGED <<runVars, fnVars, jobIDs, session, cmdVars>>

\* main: go manager.Start() and server.Start
MainStart ==
    /\ dpc = "swept"
    /\ dpc' = "select"
    /\ UNCHANGED <<jobs, clock, submissions, activeBuilds, newJobSignal,
                   workers, maxConcurrent, maxRetries, faults, stopStatus,
                   claimedSinceStart>>
    /\ UNCHANGED <<runVars, fnVars, kitVars, cmdVars>>

\* the process is killed: the goroutines and their sessions are gone, the
\* table and the containers stay
SweepCrash ==
    /\ dpc # "down"
    /\ dpc' = "down"
    /\ workers' = EmptyBag
    /\ activeBuilds' = {}
    /\ newJobSignal' = 0
    /\ session' = [j \in Jobs |-> "none"]
    /\ UNCHANGED <<jobs, clock, submissions, maxConcurrent, maxRetries, faults,
                   stopStatus, claimedSinceStart>>
    /\ UNCHANGED <<runVars, fnVars, jobIDs, docker, cmdVars>>

\* Worker.Run of goroutine g: StartEphemeralBuildKit
SweepKitStart(g, out, rmOK) ==
    /\ g.pc = "work"
    /\ KitStart(g.job, out, rmOK)

\* Worker.Run of goroutine g from the build to its return: succeedJob or
\* failJob, then the deferred Stop of a session that was started
SweepRunEnd(g, built, ok, rmOK) ==
    /\ g.pc = "work"
    /\ session[g.job] # "none"
    /\ built => session[g.job] = "started"
    /\ ok \/ FaultsLeft
    /\ Faulted(IF ok THEN 0 ELSE 1)
    /\ jobs' = IF built
               THEN IF ok THEN UpdateJobStatus(jobs, g.job, "success")
                    ELSE jobs
               ELSE FailJob(jobs, g.job, ok)
    /\ workers' =
           Move(g, [g EXCEPT !.pc =
                       AfterRun(IF built THEN SucceedJobError(ok, TRUE)
                                ELSE FailJobError)])
    /\ docker' =
           IF session[g.job] = "started"
           THEN [docker EXCEPT ![ContainerName(jobIDs[g.job])] =
                    IF DockerRm(@.state, rmOK) = "none" THEN NoContainer
                    ELSE @]
           ELSE docker
    /\ session' = [session EXCEPT ![g.job] = "none"]
    /\ UNCHANGED <<clock, submissions, activeBuilds, newJobSignal, dpc,
                   maxConcurrent, maxRetries, stopStatus, claimedSinceStart>>
    /\ UNCHANGED <<runVars, fnVars, jobIDs, cmdVars>>

SweepNext ==
    \/ MainReset
    \/ \E removed \in SUBSET DOMAIN docker : MainSweep(removed)
    \/ MainStart
    \/ SweepCrash
    \/ \E j \in Jobs : dpc = "select" /\ CreateJobHandler(j, 0)
    \/ \E out \in DispatchOutcomes : Tick(out) /\ faults' = faults
    \/ \E out \in DispatchOutcomes : SignalWake(out) /\ faults' = faults
    \/ \E g \in Goroutines, started \in BOOLEAN : WorkerStart(g, started, TRUE)
    \/ \E g \in Goroutines, out \in StartOutcomes, rmOK \in BOOLEAN :
           SweepKitStart(g, out, rmOK)
    \/ \E g \in Goroutines, built, rmOK \in BOOLEAN :
           SweepRunEnd(g, built, TRUE, rmOK)
    \/ \E g \in Goroutines : HandleFailedJob(g, "ok")
    \/ \E g \in Goroutines : GoroutineExit(g)

SweepSpec == SweepInit /\ [][SweepNext]_vars

(* ------------------------- POST /api/v1/jobs --------------------------- *)
\* net/http status codes written by CreateJobHandler
StatusCreated == 201

StatusBadRequest == 400

StatusInternalServerError == 500

\* the fields of the decoded body the handler and the claim are about; a
\* field missing from the JSON decodes to the empty string
JobBodies ==
    [fn : {"CreateJobHandler"}, id : {"", "b1"}, network : {"", "user-net"},
     gitRepository : {"", "https://git/repo"}, isAutoBuild : BOOLEAN]

\* the ids of the rows inserted by the requests answered so far
StoredIds(responses) ==
    {responses[i].id : i \in {k \in DOMAIN responses :
                                 responses[k].code = StatusCreated}}

\* the status CreateJobHandler answers with: parsed is the outcome of
\* json.Unmarshal, inspectOK of MkdirTemp, git clone, the checkouts and
\* AutoDetectBuildConfig together, insertOK of the INSERT (id is the
\* primary key)
CreateJobStatus(req, parsed, inspectOK, insertOK) ==
    IF ~parsed THEN StatusBadRequest
    ELSE IF req.isAutoBuild /\ ~inspectOK
         THEN IF req.gitRepository = "" THEN StatusBadRequest
              ELSE StatusInternalServerError
    ELSE IF ~insertOK THEN StatusInternalServerError
    ELSE StatusCreated

\* Server.CreateJobHandler on one request, followed with its body and its
\* answer: git clone of an empty repository fails, and the INSERT of an id
\* that is in the table fails
ServeCreateJob(req, j, rc, parsed, inspectOK, insertOK) ==
    LET code == CreateJobStatus(req, parsed, inspectOK, insertOK)
    IN  /\ dpc # "down"
        /\ Len(fnResult) < MaxRequests
        /\ req.gitRepository = "" => ~inspectOK
        /\ req.id \in StoredIds(fnResult) => ~insertOK
        /\ fnCall' = req
        /\ fnResult' = Append(fnResult, [id |-> req.id, code |-> code])
        /\ IF code = StatusCreated THEN StoreAndSignal(j, rc)
           ELSE j = 1 /\ rc = 0 /\ UNCHANGED sysVars
        /\ UNCHANGED <<runVars, kitVars, cmdVars>>

ServeNext ==
    \/ Startup
    \/ \E req \in JobBodies, j \in Jobs, rc \in RetryCountInputs :
           \E parsed, inspectOK, insertOK \in BOOLEAN :
               ServeCreateJob(req, j, rc, parsed, inspectOK, insertOK)

ServeSpec == SmallInit /\ [][ServeNext]_vars

(* ------------------------ the payload of a job ------------------------- *)
\* the path of a job's payload from POST /api/v1/jobs to the planner of its
\* worker: fnCall is the decoded body, fnResult the row that was inserted,
\* then the job the dispatcher read, then what the worker did with it
PayloadKeys == {<<"X">>, <<"PORT">>}

PayloadEnvs == UNION {[S -> {"1"}] : S \in SUBSET PayloadKeys}

PayloadOverrides ==
    UNION {[S -> {[present |-> TRUE, scope |-> "build", secret |-> "nil"]}] :
              S \in SUBSET {<<"X">>}}

JobPayloads ==
    [fn : {"CreateJob"}, env : PayloadEnvs,
     buildConfig : [isAutoBuild : BOOLEAN, runtime : {"", "node"},
                    network : {<< >>, <<" ">>, <<"user-net">>},
                    timeoutSeconds : {0, 60}, env : PayloadEnvs,
                    envOverrides : PayloadOverrides]]

\* the build config CreateJobHandler composes for an auto build: the fields
\* of the literal are set, every other field is the zero value
presynthesize(buildConfig, runtime) ==
    [isAutoBuild |-> TRUE, runtime |-> runtime, network |-> << >>,
     timeoutSeconds |-> buildConfig.timeoutSeconds, env |-> << >>,
     envOverrides |-> << >>]

\* cloneStringMap: nil for the empty map, a copy otherwise
cloneStringMap(values) == IF DOMAIN values = {} THEN << >> ELSE values

PayloadInit ==
    /\ ProcessIdle
    /\ fnCall \in JobPayloads
    /\ fnResult = << >>

\* Server.CreateJobHandler and Storage.CreateJob: the INSERT writes the
\* columns of the job, and build_config is the one that holds a part of
\* the payload; the top-level env has no column
PayloadCreate(inspectOK, insertOK, runtime) ==
    /\ fnCall.fn = "CreateJob"
    /\ fnResult = << >>
    /\ LET buildConfig ==
               IF fnCall.buildConfig.isAutoBuild
               THEN presynthesize(fnCall.buildConfig, runtime)
               ELSE fnCall.buildConfig
       IN fnResult' =
              IF (fnCall.buildConfig.isAutoBuild /\ ~inspectOK) \/ ~insertOK
              THEN <<[step |-> "rejected"]>>
              ELSE <<[step |-> "created", build_config |-> buildConfig]>>
    /\ FnFrame

\* Storage.GetPendingJob: the job is built from the columns of the row, and
\* its top-level env from the env of build_config
PayloadRead ==
    /\ fnCall.fn = "CreateJob"
    /\ Len(fnResult) = 1 /\ fnResult[1].step = "created"
    /\ fnResult' =
           Append(fnResult,
                  [step |-> "pending",
                   env |-> cloneStringMap(fnResult[1].build_config.env),
                   buildConfig |-> fnResult[1].build_config])
    /\ FnFrame

\* Worker.Run from the carry-forward of the env to the test of the network
PayloadRun(order) ==
    /\ fnCall.fn = "CreateJob"
    /\ Len(fnResult) = 2
    /\ LET job == fnResult[2]
           env == IF DOMAIN job.buildConfig.env = {} /\ DOMAIN job.env # {}
                  THEN job.env ELSE job.buildConfig.env
           envResult == Resolve(env, collectBuildHints(<< >>),
                                job.buildConfig.envOverrides, order)
       IN  /\ order \in Orders(DOMAIN env)
           /\ fnResult' =
                  Append(fnResult,
                         [step |-> IF TrimSpace(job.buildConfig.network)
                                         = << >>
                                   THEN "no user network provided"
                                   ELSE "network given",
                          entries |-> envResult.entries])
    /\ FnFrame

PayloadNext ==
    \/ \E inspectOK, insertOK \in BOOLEAN, runtime \in {"go", "static"} :
           PayloadCreate(inspectOK, insertOK, runtime)
    \/ PayloadRead
    \/ \E order \in UNION {Orders(S) : S \in SUBSET PayloadKeys} :
           PayloadRun(order)

PayloadSpec == PayloadInit /\ [][PayloadNext]_vars

(* ------------------------------- claims -------------------------------- *)

RetryStepOf(j) ==
    \E g \in Goroutines :
        /\ g.job = j
        /\ g.pc = "handle"
        /\ workers' = Move(g, [g EXCEPT !.pc = "exit"])

\* the step is the startup of the process
StartupStep == dpc = "down" /\ dpc' = "select"

C3_StartupRecovery ==
    (dpc = "select" /\ ~claimedSinceStart) =>
        \A j \in Jobs :
            /\ jobs[j].status \notin {"claimed", "building"}
            /\ stopStatus[j] \in {"claimed", "building"} =>
                   jobs[j].status = "pending"
            /\ stopStatus[j] \in {"pending", "failed", "success"} =>
                   jobs[j].status = stopStatus[j]

C3_Witness ==
    /\ dpc = "select"
    /\ ~claimedSinceStart
    /\ \E j, l \in Jobs :
          /\ stopStatus[j] = "building" /\ jobs[j].status = "pending"
          /\ stopStatus[l] = "failed" /\ jobs[l].status = "failed"

\* C6: with the ticker firing, every worker run returning and the store
\* calls succeeding, a row that is pending is eventually claimed, whether
\* or not a wake signal is left for it in the channel.
C6_PendingEventuallyClaimed ==
    \A j \in Jobs : (jobs[j].status = "pending") ~> (jobs[j].status = "claimed")

\* a row is pending behind a claimed job, the manager is at capacity and
\* the channel holds no signal: only a tick can claim the row
C6_Witness ==
    /\ maxConcurrent = 1
    /\ newJobSignal = 0
    /\ \E k, l \in Jobs :
          /\ jobs[k].status = "claimed" /\ k \in activeBuilds
          /\ jobs[l].status = "pending"

\* Run has returned the build-failed error and handleFailedJob has not run
RunFailed ==
    rpc = "returned" /\ Goroutine(RunJob, "handle") \in Goroutines

C5_ResourcesReleased ==
    rpc = "returned" => (~workDir /\ ~secretDir /\ logFile # "open")

C5_Witness ==
    /\ RunFailed
    /\ reason = "failed to start ephemeral BuildKit daemon"
    /\ logFile = "closed"
    /\ ~workDir
    /\ ~secretDir

\* C7: a retry step of a job whose retryCount is below maxRetries adds one
\* to retryCount, sets the status pending and signals the dispatcher, any
\* other leaves the row failed and as it was; retryCount never exceeds
\* maxRetries, and with maxRetries = 0 a failed row stays failed.
C7_RetryPolicy ==
    /\ [](\A j \in Jobs : jobs[j].retryCount <= maxRetries)
    /\ [][\A j \in Jobs :
            RetryStepOf(j) =>
                IF jobs[j].retryCount < maxRetries
                THEN /\ jobs'[j].retryCount = jobs[j].retryCount + 1
                     /\ jobs'[j].status = "pending"
                     /\ newJobSignal' = 1
                ELSE /\ jobs'[j] = jobs[j]
                     /\ jobs[j].status = "failed"]_vars
    /\ [][\A j \in Jobs :
            (maxRetries = 0 /\ jobs[j].status = "failed") =>
                jobs'[j].status = "failed"]_vars

\* the values stored on the row of the job
StoredOnRecord == {jobs[RunJob].status, jobs[RunJob].logPath,
                   jobs[RunJob].imageTag, jobs[RunJob].buildConfig}

C9_CallbackNeverChangesStatus ==
    [][/\ rpc \in {"report", "post", "afterReport"} => jobs' = jobs
       /\ jobs[RunJob].status = "success" =>
              /\ jobs'[RunJob] = jobs[RunJob]
              /\ newJobSignal' = newJobSignal]_vars

C9_Witness ==
    /\ rpc = "returned"
    /\ workers = EmptyBag
    /\ jobs[RunJob].status = "success"
    /\ attempts = 6
    /\ ret = "callback"
    /\ jobs[RunJob].retryCount < maxRetries

\* C10: ReportResult makes at most 6 POSTs; it returns nil at the first 2xx
\* and only then (or without URL, with no POST at all); after a failed POST
\* it makes another while fewer than 6 were made, and after the sixth it
\* returns an error carrying that last failure; it always returns.
C10_ReportBounded ==
    /\ [](attempts <= 6)
    /\ [](callbackURL = "" =>
             (attempts = 0 /\ repRet \in {"none", "nil"}))
    /\ []((callbackURL # "" /\ repRet = "nil") => lastOutcome = "2xx")
    /\ [](repRet \notin {"none", "nil", "request error"} =>
             /\ attempts = 6
             /\ lastOutcome # "2xx"
             /\ lastErr = lastOutcome
             /\ repRet = "failed to report: " \o lastErr)
    /\ [][(rpc = "post" /\ callbackURL = "ok") =>
             /\ attempts' = attempts + 1
             /\ lastOutcome' = "2xx" => (repRet' = "nil" /\ rpc' # "post")
             /\ (lastOutcome' # "2xx" /\ attempts' < 6) =>
                    (rpc' = "post" /\ repRet' = "none")
             /\ (lastOutcome' # "2xx" /\ attempts' = 6) => rpc' # "post"]_vars
    /\ (rpc = "report") ~> (rpc = "afterReport" /\ repRet # "none")

C10_Witness ==
    /\ rpc = "afterReport"
    /\ attempts = 6
    /\ lastErr = "non-2xx"
    /\ repRet = "failed to report: non-2xx"

\* C11: when the job's timeoutSeconds elapses while its clone or build
\* process is running, the process is cancelled and the run fails the job at
\* that statement; once Run has returned, the persisted status is failed
\* and, after the goroutine has ended, the id is out of the active set.
C11_TimeoutEnforced ==
    /\ [][(~overran /\ overran') => rpc' = "failJob"]_vars
    /\ [](overran /\ rpc = "returned" =>
             /\ jobs[RunJob].status = "failed"
             /\ Goroutines = {} => RunJob \notin activeBuilds)

\* C12: IsCommandAllowed(command, patterns) is true exactly when the trimmed
\* command is not empty and some trimmed, non-empty pattern equals it or
\* contains an asterisk and becomes the command when every asterisk is
\* replaced by a non-empty string over the class. (Replaced: p with its
\* asterisks replaced, from the left, by strings of the lengths lens, each
\* non-empty and over the class, is the string c.)
C12_IsAllowed ==
    (fnCall.fn = "IsCommandAllowed" /\ fnResult # << >>) =>
        LET RECURSIVE Replaced(_, _, _)
            Replaced(p, c, lens) ==
                IF Len(p) = 0 THEN Len(c) = 0
                ELSE IF Head(p) = "*"
                THEN /\ Len(lens) > 0
                     /\ Head(lens) <= Len(c)
                     /\ \A i \in 1..Head(lens) : c[i] \in {"a", ":"}
                     /\ Replaced(Tail(p),
                                 SubSeq(c, Head(lens) + 1, Len(c)),
                                 Tail(lens))
                ELSE /\ Len(c) > 0
                     /\ Head(c) = Head(p)
                     /\ Replaced(Tail(p), Tail(c), lens)
            Asterisks(p) == Cardinality({i \in 1..Len(p) : p[i] = "*"})
            cmd == TrimSpace(fnCall.cmd)
            Matches(p) ==
                \/ p = cmd
                \/ /\ Asterisks(p) > 0
                   /\ \E lens \in [1..Asterisks(p) -> 1..Len(cmd)] :
                          Replaced(p, cmd, lens)
        IN fnResult[1] =
              /\ cmd # << >>
              /\ \E n \in 1..Len(fnCall.allowed) :
                     LET p == TrimSpace(fnCall.allowed[n])
                     IN p # << >> /\ Matches(p)

\* a command that no pattern equals was allowed by a pattern with an
\* asterisk, which stands for more than one character
C12_Witness ==
    /\ fnCall.fn = "IsCommandAllowed"
    /\ fnResult = <<TRUE>>
    /\ \A n \in 1..Len(fnCall.allowed) :
          /\ TrimSpace(fnCall.allowed[n]) # TrimSpace(fnCall.cmd)
          /\ Len(TrimSpace(fnCall.allowed[n])) < Len(TrimSpace(fnCall.cmd))
\* C13: the command detect returns for a slot is the first entry of the
\* runtime's candidate list for the slot that IsCommandAllowed accepts
\* against the slot's allow-list, and the empty string when there is none;
\* a non-empty returned command is accepted by IsCommandAllowed.
C13_FirstAllowedCandidate ==
    (fnCall.fn = "detectCommandsWithPath" /\ fnResult # << >>) =>
        LET cs == Candidates(fnCall.runtime, fnCall.slot, fnCall.found)
            ok == {i \in 1..Len(cs) : IsCommandAllowed(cs[i], fnCall.allowed)}
        IN /\ ok = {} => fnResult[1] = << >>
           /\ ok # {} =>
                  \E i \in ok : /\ fnResult[1] = cs[i]
                                 /\ \A k \in ok : i <= k
           /\ fnResult[1] # << >> =>
                  IsCommandAllowed(fnResult[1], fnCall.allowed)
\* C14: for every key of the plan, a final scope of build or both puts the
\* key in exactly one of buildArgs and buildSecrets (buildSecrets when its
\* final secret flag is set, buildArgs otherwise), and a final scope of
\* runtime puts it in neither.
C14_Partition ==
    fnCall.fn = "Resolve" =>
        \A r \in 1..Len(fnResult) :
            \A i \in 1..Len(fnResult[r].entries) :
                LET e == fnResult[r].entries[i]
                    inArgs == e.key \in DOMAIN fnResult[r].buildArgs
                    inSecrets == e.key \in DOMAIN fnResult[r].buildSecrets
                IN /\ e.scope \in {"build", "both"} =>
                        /\ inSecrets = e.secret
                        /\ inArgs = ~e.secret
                   /\ e.scope = "runtime" => ~inArgs /\ ~inSecrets

\* a plan with a key of scope both in buildSecrets, one of scope build in
\* buildArgs
C14_Witness ==
    /\ fnCall.fn = "Resolve"
    /\ Len(fnResult) > 0
    /\ \E i, k \in 1..Len(fnResult[1].entries) :
          LET e == fnResult[1].entries[i]
              f == fnResult[1].entries[k]
          IN /\ e.scope = "both" /\ e.secret
             /\ e.key \in DOMAIN fnResult[1].buildSecrets
             /\ f.scope = "build" /\ ~f.secret
             /\ f.key \in DOMAIN fnResult[1].buildArgs
\* C15: two runs of the planner over the same env, overrides and hint files
\* give the same entries in the same order and the same buildArgs and
\* buildSecrets, also when two keys of env differ only by surrounding
\* blanks; and every key of buildArgs and buildSecrets is a key of env with
\* the same value.
C15_PlanDeterministic ==
    (fnCall.fn = "Resolve" /\ Len(fnResult) = 2) =>
        /\ fnResult[1] = fnResult[2]
        /\ \A r \in 1..2 :
              \A m \in {fnResult[r].buildArgs, fnResult[r].buildSecrets} :
                  \A k \in DOMAIN m :
                      k \in DOMAIN fnCall.env /\ fnCall.env[k] = m[k]
\* C16: for a key with an override entry, a non-empty override scope is the
\* final scope and the reason gains +override-scope; a non-nil override
\* secret is the final secret flag and the reason gains +override-secret,
\* also when the Dockerfile declares ARG <key> (the key is then in
\* buildSecrets and not in buildArgs); a field the override leaves unset
\* keeps its auto-detected value.
C16_OverridesWin ==
    fnCall.fn = "Resolve" =>
        \A r \in 1..Len(fnResult) :
            \A i \in 1..Len(fnResult[r].entries) :
                LET e == fnResult[r].entries[i]
                    o == fnCall.overrides[e.key]
                    auto == AutoDetect(e.key, fnCall.hints)
                    scopePart == IF o.scope # "" THEN <<"+override-scope">>
                                 ELSE << >>
                    secretPart == IF o.secret # "nil"
                                  THEN <<"+override-secret">> ELSE << >>
                IN o.present =>
                     /\ e.scope = IF o.scope # "" THEN o.scope
                                  ELSE auto.scope
                     /\ e.secret = IF o.secret # "nil" THEN o.secret = "true"
                                   ELSE auto.secret
                     /\ e.reason = auto.reason \o scopePart \o secretPart
                     /\ (o.secret = "true" /\ e.scope \in {"build", "both"})
                            => /\ e.key \in DOMAIN fnResult[r].buildSecrets
                               /\ e.key \notin DOMAIN fnResult[r].buildArgs

\* the Dockerfile declares ARG <key>, auto-detection cleared the secret
\* flag and the override set it again: the key is in buildSecrets
C16_Witness ==
    /\ fnCall.fn = "Resolve"
    /\ Len(fnResult) > 0
    /\ \E i \in 1..Len(fnResult[1].entries) :
          LET e == fnResult[1].entries[i]
          IN /\ e.reason = <<"dockerfile-arg", "+override-secret">>
             /\ ~AutoDetect(e.key, fnCall.hints).secret
             /\ e.secret
             /\ e.key \in DOMAIN fnResult[1].buildSecrets
\* C17: the image tag the worker computes matches
\* ^[^/]+/[a-z0-9-]+/[a-z0-9-]+:[0-9a-f]{0,12}-b[^-]+-v[0-9]{8}T[0-9]{6}Z$
\* whatever the registry and the job's userId, projectId, commitSha and id.
\* (An item of the expression is a set of characters repeated min to max
\* times.)
C17_ImageTagFormat ==
    (fnCall.fn = "generateImageTag" /\ fnResult # << >>) =>
        LET RECURSIVE Matches(_, _)
            Matches(re, v) ==
                IF Len(re) = 0 THEN Len(v) = 0
                ELSE \E n \in Head(re).min..Head(re).max :
                         /\ n <= Len(v)
                         /\ \A i \in 1..n : v[i] \in Head(re).set
                         /\ Matches(Tail(re), SubSeq(v, n + 1, Len(v)))
            Lit(c) == [set |-> {c}, min |-> 1, max |-> 1]
            Many(S) == [set |-> S, min |-> 1, max |-> Len(fnResult[1])]
            lower == {"a", "g", "0", "-"}
            digits == [set |-> {"0"}, min |-> 8, max |-> 8]
        IN Matches(<<Many(TagChars \ {"/"}), Lit("/"), Many(lower),
                     Lit("/"), Many(lower), Lit(":"),
                     [set |-> {"a", "0"}, min |-> 0, max |-> 12],
                     Lit("-"), Lit("b"), Many(TagChars \ {"-"}),
                     Lit("-"), Lit("v"), digits, Lit("T"),
                     [digits EXCEPT !.min = 6, !.max = 6], Lit("Z")>>,
                   fnResult[1])
\* C18: two jobs with different ids whose sessions are both started have
\* different container names, and a step of one job's session (its start,
\* with the forced removal of a container of the name, or its stop) leaves
\* the container of the other job's started session in place.
C18_ContainerNamesCollisionSafe ==
    /\ []((session = <<"started", "started">>) =>
             ContainerName(jobIDs[1]) # ContainerName(jobIDs[2]))
    /\ [][\A j \in DOMAIN session :
             (/\ session[j] = "started"
              /\ session'[j] = "started"
              /\ docker[ContainerName(jobIDs[j])].owner = j)
                 => docker'[ContainerName(jobIDs[j])].owner = j]_vars
\* C19: a request of POST /api/v1/jobs whose body has an empty or missing id,
\* buildConfig.network or sourceInfo.gitRepository creates no row in the
\* table and does not signal the dispatcher.
C19_IncompleteBodyRejected ==
    [][(/\ Len(fnResult') > Len(fnResult)
        /\ fnCall'.fn = "CreateJobHandler"
        /\ "" \in {fnCall'.id, fnCall'.network, fnCall'.gitRepository})
           => /\ jobs' = jobs
              /\ newJobSignal' = newJobSignal
              /\ fnResult'[Len(fnResult')].code # StatusCreated]_vars
\* C20: a job that becomes claimed was pending, and no pending job of the
\* table had an earlier createdAt, in the state tryToDispatchJob picked it
\* in; a call of tryToDispatchJob changes no row but the one it claims, so
\* the pick by itself changes no status.
C20_FifoClaim ==
    [][/\ \A j \in Jobs :
            (jobs'[j].status = "claimed" /\ jobs[j].status # "claimed")
                => /\ jobs[j].status = "pending"
                   /\ \A k \in PendingIds(jobs) :
                          jobs[j].createdAt <= jobs[k].createdAt
       /\ (\E out \in DispatchOutcomes : Tick(out) \/ SignalWake(out))
            => \A j \in Jobs :
                   \/ jobs'[j] = jobs[j]
                   \/ /\ jobs[j].status = "pending"
                      /\ jobs'[j] = [jobs[j] EXCEPT !.status = "claimed"]]_vars

\* the older of two pending jobs has been claimed and the newer one waits
C20_Witness ==
    \E j, k \in Jobs :
        /\ jobs[j].status = "claimed"
        /\ jobs[k].status = "pending"
        /\ jobs[j].createdAt < jobs[k].createdAt
        /\ Goroutine(j, "start") \in BagToSet(workers)
\* C21: the wake channel holds at most one signal; a call of SignalNewJob
\* returns with the channel holding one signal, whether it was empty or
\* full (the send does not wait and a signal sent on a full channel is
\* dropped); a signal leaves the channel only in a step of the dispatcher
\* that calls tryToDispatchJob, and a signal in the channel is eventually
\* received.
C21_WakeSignal ==
    /\ [](newJobSignal \in {0, 1})
    /\ [][clock' # clock => newJobSignal' = 1]_vars
    /\ [][newJobSignal' < newJobSignal
            => SignalWake(DispatchOutcome)]_vars
    /\ (newJobSignal = 1) ~> (newJobSignal = 0)

\* two requests were answered and the dispatcher has not run in between:
\* the second signal was dropped
C21_Witness ==
    /\ newJobSignal = 1
    /\ clock = 2
    /\ PendingIds(jobs) = {1, 2}
    /\ activeBuilds = {}
    /\ ~claimedSinceStart
\* C22: the steps of one run are executed in the order clone, checkout of
\* ref, checkout of commitSha, environment plan, secrets, network check and
\* session, build, imageTag update, status update, callback; every step up
\* to the imageTag update starts right after the step before it (a checkout
\* of a field that is not set is left out), the success status follows the
\* imageTag update, and a step starts only after the step before it returned
\* without error, except for the failed status and the callback.
C22_StrictSequence ==
    [][lastStep' # lastStep =>
         LET order == <<"none", "clone", "checkoutRef", "checkoutSha",
                        "envPlan", "secrets", "session", "build",
                        "updateImageTag", "status", "callback">>
             Rank(n) == CHOOSE i \in DOMAIN order : order[i] = n
             before == Rank(lastStep.step)
             now == Rank(lastStep'.step)
             optional == {Rank("checkoutRef"), Rank("checkoutSha")}
         IN  /\ before < now
             /\ now <= Rank("updateImageTag")
                  => (before + 1)..(now - 1) \subseteq optional
             /\ (now = Rank("status") /\ rpc = "succeedJob")
                  => before = Rank("updateImageTag")
             /\ \/ lastStep.ok
                \/ now = Rank("status") /\ rpc = "failJob"
                \/ now = Rank("callback")]_vars

\* C22 as amended: as C22, but the success status is also written after an
\* imageTag update that returned an error.
C22_StrictSequenceAmended ==
    [][lastStep' # lastStep =>
         LET order == <<"none", "clone", "checkoutRef", "checkoutSha",
                        "envPlan", "secrets", "session", "build",
                        "updateImageTag", "status", "callback">>
             Rank(n) == CHOOSE i \in DOMAIN order : order[i] = n
             before == Rank(lastStep.step)
             now == Rank(lastStep'.step)
             optional == {Rank("checkoutRef"), Rank("checkoutSha")}
         IN  /\ before < now
             /\ now <= Rank("updateImageTag")
                  => (before + 1)..(now - 1) \subseteq optional
             /\ (now = Rank("status") /\ rpc = "succeedJob")
                  => before = Rank("updateImageTag")
             /\ \/ lastStep.ok
                \/ before = Rank("updateImageTag")
                \/ now = Rank("status") /\ rpc = "failJob"
                \/ now = Rank("callback")]_vars

\* the run went through every step, both checkouts included, and the
\* callback was started
C22_Witness ==
    /\ lastStep = Step("callback", TRUE)
    /\ reportFor = "success"
    /\ jobs[RunJob].imageTag = "tag"
    /\ jobs[RunJob].status = "success"
C24_BuildArgRedacted ==
    (fnCall.fn = "sanitizeCommandForLog" /\ fnResult # << >>)
        => LET args == BuildCommand(fnCall.key, fnCall.value,
                                    fnCall.imageTag)
           IN  fnResult[1] =
                   args[1] \o <<" ">> \o args[2] \o <<" ">>
                   \o <<"build-arg:">> \o fnCall.key
                   \o <<"=", "<redacted>", " ">>
                   \o args[4] \o <<" ">> \o args[5]
\* C25: the runtime AutoDetectBuildConfig builds for is the runtime of the
\* first marker, in the order bun.lock, package.json, a Python marker,
\* go.mod, composer.json, a Java marker, index.html, that is among the
\* files of the repository; without a marker (unknown) and for
\* composer.json (php) it returns an error and no configuration.
C25_RuntimePriority ==
    (fnCall.fn = "AutoDetectBuildConfig" /\ fnResult # << >>)
        => LET priority ==
                   << <<{"bun.lock"}, "bun">>, <<{"package.json"}, "node">>,
                      <<{"requirements.txt", "pyproject.toml", "setup.py",
                         "Pipfile"}, "python">>,
                      <<{"go.mod"}, "go">>, <<{"composer.json"}, "php">>,
                      <<{"pom.xml", "build.gradle", "build.gradle.kts"},
                        "java">>,
                      <<{"index.html"}, "static">> >>
               hits == {i \in DOMAIN priority :
                           priority[i][1] \cap fnCall.files # {}}
               first == CHOOSE i \in hits : \A k \in hits : i <= k
               runtime == IF hits = {} THEN "unknown"
                          ELSE priority[first][2]
           IN  IF runtime \in {"unknown", "php"}
               THEN ~fnResult[1].ok /\ fnResult[1].runtime = ""
               ELSE fnResult[1].ok /\ fnResult[1].runtime = runtime

\* package.json together with go.mod gives node
C25_Witness ==
    /\ fnCall.fn = "AutoDetectBuildConfig"
    /\ {"package.json", "go.mod"} \subseteq fnCall.files
    /\ "bun.lock" \notin fnCall.files
    /\ fnResult = <<[runtime |-> "node", ok |-> TRUE]>>
Streams == {"stdout", "stderr"}

\* executeCommand up to cmd.Start: both pipes are made and the two
\* goroutines that run streamPipe are started
CmdInit ==
    /\ FnIdle /\ KitIdle /\ Instance(0, 1, 0)
    /\ xpc = "start"
    /\ child = "not started"
    /\ written = [s \in Streams |-> 0]
    /\ pipeBuf = [s \in Streams |-> 0]
    /\ readEnd = [s \in Streams |-> "open"]
    /\ reader = [s \in Streams |-> "scanning"]
    /\ logged = [s \in Streams |-> 0]

CmdFrame == UNCHANGED <<sysVars, runVars, fnVars, kitVars>>

\* cmd.Start: a command that cannot be started has its pipes closed and
\* executeCommand returns the error without waiting for the goroutines
CmdStart(ok) ==
    /\ xpc = "start"
    /\ IF ok
       THEN xpc' = "wait" /\ child' = "running" /\ UNCHANGED readEnd
       ELSE /\ xpc' = "returned"
            /\ readEnd' = [s \in Streams |-> "closed"]
            /\ UNCHANGED child
    /\ UNCHANGED <<written, pipeBuf, reader, logged>>
    /\ CmdFrame

\* the child process writes a line to one of its streams
ChildWrite(s) ==
    /\ child = "running"
    /\ written[s] < MaxLines
    /\ written' = [written EXCEPT ![s] = @ + 1]
    /\ pipeBuf' = [pipeBuf EXCEPT ![s] = @ + 1]
    /\ UNCHANGED <<xpc, child, readEnd, reader, logged>>
    /\ CmdFrame

\* the child process exits, which closes the write end of both pipes
ChildExit ==
    /\ child = "running"
    /\ child' = "exited"
    /\ UNCHANGED <<xpc, written, pipeBuf, readEnd, reader, logged>>
    /\ CmdFrame

\* what scanner.Scan finds: a read of a closed file fails, a line that is
\* in the pipe is read, a pipe that is empty and closed by its writer is at
\* end-of-stream, and the read of an empty pipe of a running child blocks
Scan(s) ==
    IF readEnd[s] = "closed" THEN "error"
    ELSE IF pipeBuf[s] > 0 THEN "line"
    ELSE IF child = "exited" THEN "eof"
    ELSE "blocked"

\* one turn of the loop of streamPipe: a line is put in the job log, and
\* any other return of Scan ends the goroutine
StreamPipe(s) ==
    /\ reader[s] = "scanning"
    /\ Scan(s) # "blocked"
    /\ IF Scan(s) = "line"
       THEN /\ pipeBuf' = [pipeBuf EXCEPT ![s] = @ - 1]
            /\ logged' = [logged EXCEPT ![s] = @ + 1]
            /\ UNCHANGED reader
       ELSE /\ reader' = [reader EXCEPT ![s] = "done"]
            /\ UNCHANGED <<pipeBuf, logged>>
    /\ UNCHANGED <<xpc, child, written, readEnd>>
    /\ CmdFrame

\* cmd.Wait: returns once the child has exited and closes, before it
\* returns, the read ends that StdoutPipe and StderrPipe gave out
CmdWait ==
    /\ xpc = "wait"
    /\ child = "exited"
    /\ readEnd' = [s \in Streams |-> "closed"]
    /\ xpc' = "wgWait"
    /\ UNCHANGED <<child, written, pipeBuf, reader, logged>>
    /\ CmdFrame

\* wg.Wait and the return of the error of cmd.Wait
WgWait ==
    /\ xpc = "wgWait"
    /\ \A s \in Streams : reader[s] = "done"
    /\ xpc' = "returned"
    /\ UNCHANGED <<child, written, pipeBuf, readEnd, reader, logged>>
    /\ CmdFrame

CmdNext ==
    \/ \E ok \in BOOLEAN : CmdStart(ok)
    \/ \E s \in Streams : ChildWrite(s)
    \/ ChildExit
    \/ \E s \in Streams : StreamPipe(s)
    \/ CmdWait
    \/ WgWait

CmdSpec == CmdInit /\ [][CmdNext]_vars

(* ------------------- executeCommand and long lines --------------------- *)
\* The output of the child in chunks of 64 KiB, which is the capacity of a
\* pipe and bufio.MaxScanTokenSize: a chunk of kind "lines" ends with a
\* newline, a chunk of kind "part" holds none. fnCall.output is what the
\* child writes to each stream before it exits, pipeBuf the chunks in each
\* pipe, written and logged count chunks.
ChunkKinds == {"lines", "part"}

Outputs ==
    UNION {[1..n -> ChunkKinds] : n \in 0..MaxChunks}

ChunkInit ==
    /\ KitIdle /\ Instance(0, 1, 0)
    /\ \E output \in [Streams -> Outputs] :
           fnCall = [fn |-> "executeCommand", output |-> output]
    /\ fnResult = << >>
    /\ xpc = "start"
    /\ child = "not started"
    /\ written = [s \in Streams |-> 0]
    /\ pipeBuf = [s \in Streams |-> << >>]
    /\ readEnd = [s \in Streams |-> "open"]
    /\ reader = [s \in Streams |-> "scanning"]
    /\ logged = [s \in Streams |-> 0]

\* the child has a chunk to write to s and the pipe of s is full
WriteBlocked(s) ==
    /\ child = "running"
    /\ written[s] < Len(fnCall.output[s])
    /\ Len(pipeBuf[s]) > 0

\* the child writes its next chunk to s; the write to a full pipe blocks
ChunkWrite(s) ==
    /\ child = "running"
    /\ written[s] < Len(fnCall.output[s])
    /\ ~WriteBlocked(s)
    /\ written' = [written EXCEPT ![s] = @ + 1]
    /\ pipeBuf' = [pipeBuf EXCEPT
                      ![s] = Append(@, fnCall.output[s][written[s] + 1])]
    /\ UNCHANGED <<xpc, child, readEnd, reader, logged>>
    /\ CmdFrame

\* the child exits when it has written its output
ChunkExit ==
    /\ \A s \in Streams : written[s] = Len(fnCall.output[s])
    /\ ChildExit

\* what scanner.Scan finds: a read of a closed file fails; a chunk with a
\* newline gives tokens; a chunk without one fills the buffer of the
\* scanner to its largest size (bufio.ErrTooLong); an empty pipe closed by
\* its writer is at end-of-stream; the read of an empty pipe of a running
\* child blocks
ChunkScan(s) ==
    IF readEnd[s] = "closed" THEN "error"
    ELSE IF Len(pipeBuf[s]) > 0
    THEN IF Head(pipeBuf[s]) = "lines" THEN "line" ELSE "too long"
    ELSE IF child = "exited" THEN "eof"
    ELSE "blocked"

\* the loop of streamPipe on a chunk: its lines are put in the job log, and
\* any other return of Scan ends the goroutine; the chunk that was too long
\* has been read from the pipe
ChunkStreamPipe(s) ==
    /\ reader[s] = "scanning"
    /\ ChunkScan(s) # "blocked"
    /\ pipeBuf' = IF ChunkScan(s) \in {"line", "too long"}
                  THEN [pipeBuf EXCEPT ![s] = Tail(@)] ELSE pipeBuf
    /\ logged' = IF ChunkScan(s) = "line"
                 THEN [logged EXCEPT ![s] = @ + 1] ELSE logged
    /\ reader' = IF ChunkScan(s) = "line" THEN reader
                 ELSE [reader EXCEPT ![s] = "done"]
    /\ UNCHANGED <<xpc, child, written, readEnd>>
    /\ CmdFrame

ChunkNext ==
    \/ \E ok \in BOOLEAN : CmdStart(ok)
    \/ \E s \in Streams : ChunkWrite(s)
    \/ ChunkExit
    \/ \E s \in Streams : ChunkStreamPipe(s)
    \/ CmdWait
    \/ WgWait

ChunkSpec == ChunkInit /\ [][ChunkNext]_vars

\* C27: executeCommand returns from a started command only after the child
\* has exited and both goroutines of streamPipe have ended, and every line
\* the child wrote to stdout or stderr is then in the job log.
C27_OutputDrained ==
    xpc = "returned" /\ child # "not started"
        => /\ child = "exited"
           /\ \A s \in Streams : reader[s] = "done" /\ logged[s] = written[s]

\* C28: when UpdateJobStatus(claimed) of the picked job fails, the call of
\* tryToDispatchJob leaves the id out of the active set, starts no goroutine
\* and writes no row: the job is still the oldest pending one, so the next
\* wake picks it again, and the active set has not grown.
C28_FailedClaimReleased ==
    [][/\ "claim failed" \in DispatchOutcomes
       /\ Tick("claim failed") \/ SignalWake("claim failed")
       => LET pick == GetPendingJob(jobs)
          IN  /\ pick \notin activeBuilds'
              /\ activeBuilds' = activeBuilds \ {pick}
              /\ workers' = workers
              /\ jobs' = jobs
              /\ jobs'[pick].status = "pending"
              /\ GetPendingJob(jobs') = pick
              /\ ~AtCapacity']_vars

\* a claim has failed on a job that was made pending for its retry while
\* the goroutine of its previous run had not yet returned: the id is out of
\* the active set and the row is pending
C28_Witness ==
    /\ faults > 0
    /\ BagCardinality(workers) = 1
    /\ \E g \in Goroutines :
          /\ g.pc = "exit"
          /\ jobs[g.job].status = "pending"
          /\ jobs[g.job].retryCount = 1
          /\ g.job \notin activeBuilds

\* C29: the entry the planner computes for a key is not secret exactly when
\* the upper-cased key starts with a public prefix, or is one of PORT,
\* NODE_ENV, HOST, TZ, APP_ENV and LOG_LEVEL, or has a reason that starts
\* with dockerfile-arg; every other key is secret, with or without a marker.
C29_SecretFlag ==
    fnCall.fn = "AutoDetect" /\ fnResult # << >>
        => LET upperKey == ToUpper(fnCall.key)
               entry == fnResult[1]
           IN  (~entry.secret)
                   <=> \/ Head(upperKey) \in publicEnvPrefixes
                       \/ upperKey \in {<<"PORT">>, <<"NODE_ENV">>, <<"HOST">>,
                                        <<"TZ">>, <<"APP_ENV">>,
                                        <<"LOG_LEVEL">>}
                       \/ Head(entry.reason) = "dockerfile-arg"

\* a key with a secret marker that the Dockerfile declares with ARG, and
\* that is runtime-signalled too, is not secret
C29_Witness ==
    /\ fnCall.fn = "AutoDetect"
    /\ fnCall.key = <<"DATABASE_URL">>
    /\ fnResult # << >>
    /\ fnResult[1].reason = <<"dockerfile-arg", "+runtime-signal">>
    /\ ~fnResult[1].secret

\* C30: scope and reason of the entry of a key follow the first rule that
\* applies to the upper-cased key: a public prefix gives both and
\* public-prefix; a build reference (an ARG line gives dockerfile-arg, else
\* $KEY or ${KEY} gives dockerfile-reference, else a config file that holds
\* the key gives build-config-reference) gives build and that reason, or
\* both and that reason with +runtime-signal for a runtime-signalled key;
\* a runtime-signalled key gives runtime and runtime-signal; any other key
\* gives runtime and default-runtime.
C30_ScopeRules ==
    fnCall.fn = "AutoDetect" /\ fnResult # << >>
        => LET upperKey == ToUpper(fnCall.key)
               dockerfile == fnCall.hints.dockerfileContent
               entry == fnResult[1]
               public == Head(upperKey) \in publicEnvPrefixes
               arg == \E l \in dockerfile :
                          l.kind \in {"ARG", "ARG="} /\ l.key = upperKey
               ref == \E l \in dockerfile :
                          \/ l.kind = "$" /\ HasPrefix(l.key, upperKey)
                          \/ l.kind = "${}" /\ l.key = upperKey
               cfg == \E content \in fnCall.hints.configContents :
                          ContainsPieces(content, upperKey)
               signalled ==
                   \/ /\ Len(upperKey) = 1
                      /\ Head(upperKey) \in runtimePreferredKeys
                   \/ Head(upperKey) \in runtimePreferredPrefixes
               buildReason == IF arg THEN "dockerfile-arg"
                              ELSE IF ref THEN "dockerfile-reference"
                              ELSE "build-config-reference"
           IN  /\ public
                   => entry.scope = "both" /\ entry.reason = <<"public-prefix">>
               /\ ~public /\ (arg \/ ref \/ cfg) /\ signalled
                   => /\ entry.scope = "both"
                      /\ entry.reason = <<buildReason, "+runtime-signal">>
               /\ ~public /\ (arg \/ ref \/ cfg) /\ ~signalled
                   => entry.scope = "build" /\ entry.reason = <<buildReason>>
               /\ ~public /\ ~(arg \/ ref \/ cfg) /\ signalled
                   => /\ entry.scope = "runtime"
                      /\ entry.reason = <<"runtime-signal">>
               /\ ~public /\ ~(arg \/ ref \/ cfg) /\ ~signalled
                   => /\ entry.scope = "runtime"
                      /\ entry.reason = <<"default-runtime">>

\* a lower-case key that the Dockerfile declares with ARG and substitutes,
\* and that a config file names, is runtime-signalled through its
\* upper-cased form
C30_Witness ==
    /\ fnCall.fn = "AutoDetect"
    /\ fnCall.key = <<"port">>
    /\ Line("ARG", <<"PORT">>) \in fnCall.hints.dockerfileContent
    /\ Line("${}", <<"PORT">>) \in fnCall.hints.dockerfileContent
    /\ fnCall.hints.configContents # {}
    /\ fnResult # << >>
    /\ fnResult[1].scope = "both"
    /\ fnResult[1].reason = <<"dockerfile-arg", "+runtime-signal">>

\* the position of a trimmed key in Go's string order
RecipeKeyRank(key) ==
    CHOOSE n \in 1..Len(RecipeKeyOrder) : RecipeKeyOrder[n] = key

\* the recipe of a call wires the build-arg keys and the two commands: the
\* ARG lines name every distinct key that is not empty once trimmed, once
\* and in ascending order; the RUN lines are those of the commands that are
\* not empty once trimmed, prebuild first, each a plain RUN of the command
\* when no secret key is left, and else a RUN that mounts every secret key
\* and runs, in sh -c, set -e, then an export of every secret key, then the
\* command
RecipeWired(call, lines) ==
    LET args == SelectSeq(lines, LAMBDA l : l.op = "ARG")
        runs == SelectSeq(lines, LAMBDA l : l.op = "RUN")
        argKeys == {TrimSpace(call.buildArgKeys[i]) :
                       i \in 1..Len(call.buildArgKeys)} \ {<< >>}
        secrets == {TrimSpace(call.secretBuildKeys[i]) :
                       i \in 1..Len(call.secretBuildKeys)} \ {<< >>}
        commands == SelectSeq(<<TrimSpace(call.prebuild),
                                TrimSpace(call.build)>>,
                              LAMBDA c : c # << >>)
    IN  /\ Len(args) = Cardinality(argKeys)
        /\ \A k \in argKeys : \E i \in 1..Len(args) : args[i].keys = <<k>>
        /\ \A i, j \in 1..Len(args) :
               i < j => RecipeKeyRank(args[i].keys[1])
                            < RecipeKeyRank(args[j].keys[1])
        /\ Len(runs) = Len(commands)
        /\ \A n \in 1..Len(runs) :
               LET script == runs[n].script
                   last == script[Len(script)]
               IN  IF secrets = {}
                   THEN /\ ~runs[n].sh
                        /\ runs[n].keys = << >>
                        /\ script = <<Stmt("text", commands[n])>>
                   ELSE /\ runs[n].sh
                        /\ {runs[n].keys[i] : i \in 1..Len(runs[n].keys)}
                               = secrets
                        /\ script[1] = Stmt("set -e", << >>)
                        /\ \A k \in secrets :
                               \E i \in 2..(Len(script) - 1) :
                                   script[i] = Stmt("export", k)
                        /\ last.stmt = "text"
                        /\ last.arg = escapeSingleQuotes(commands[n])

\* C31: for every runtime the generator supports and every buildArgKeys,
\* secretKeys, prebuild and build command, the recipe declares each distinct
\* non-empty build-arg key once, in sorted order, and holds for each
\* non-empty command a plain RUN line without secret keys and a RUN line
\* with the mounts, set -e and the exports with them; an empty command gives
\* no RUN line.
C31_RecipeWiring ==
    fnCall.fn = "GenerateDockerfileWithBuildEnv" /\ fnResult # << >>
        /\ fnResult[1].ok
        => RecipeWired(fnCall, fnResult[1].lines)

\* C31 as amended: as C31 for the runtimes node, python, go, bun and java;
\* the recipe of the runtime static is the fixed nginx recipe, which holds
\* no ARG line and no RUN line whatever the keys and the commands are.
C31_RecipeWiringAmended ==
    fnCall.fn = "GenerateDockerfileWithBuildEnv" /\ fnResult # << >>
        => /\ fnResult[1].ok
               <=> fnCall.runtime \in {"node", "python", "go", "bun", "java",
                                       "static"}
           /\ fnResult[1].ok /\ fnCall.runtime # "static"
               => RecipeWired(fnCall, fnResult[1].lines)
           /\ fnCall.runtime = "static"
               => /\ fnResult[1].lines = generateStaticDockerfile
                  /\ \A i \in 1..Len(fnResult[1].lines) :
                         fnResult[1].lines[i].op \notin {"ARG", "RUN"}

\* a node recipe for the keys B, " A", B and the secret keys T, S: ARG A
\* then ARG B, and two RUN lines that mount S and T
C31_Witness ==
    /\ fnCall.fn = "GenerateDockerfileWithBuildEnv"
    /\ fnCall.runtime = "node"
    /\ fnCall.buildArgKeys = <<<<"B">>, <<" ", "A">>>>
    /\ fnCall.secretBuildKeys = <<<<"T">>, <<"S">>>>
    /\ fnCall.prebuild = <<"m">>
    /\ fnCall.build = <<" ", "m", "'">>
    /\ fnResult # << >>
    /\ Len(SelectSeq(fnResult[1].lines, LAMBDA l : l.op = "RUN")) = 2
    /\ SelectSeq(fnResult[1].lines, LAMBDA l : l.op = "ARG")
           = renderArgLines(<<<<"A">>, <<"B">>>>)

\* the directories of a repository that hold a Go file, not a test file,
\* with package main and func main(, outside .git, vendor, node_modules
\* and the dot-directories
GoMainDirs(files) ==
    {f.dir : f \in {g \in files :
                      /\ g.name = "main.go"
                      /\ g.main
                      /\ \A i \in 1..Len(g.dir) :
                             g.dir[i] \notin {".git", "vendor",
                                              "node_modules", ".x"}}}

\* the first of a set of directories in alphabetical order
FirstDir(dirs) ==
    LET Pos(d) == CHOOSE n \in 1..Len(GoEntrypointOrder) :
                      GoEntrypointOrder[n] = Entrypoint(d)
    IN CHOOSE d \in dirs : \A e \in dirs : Pos(d) <= Pos(e)

\* C32: for a Go repository with a main directory, the entrypoint is the
\* first main directory under ./cmd/ when there is one, else the root when
\* it is one, else the first main directory in alphabetical order; the
\* build command is go build -o app <entrypoint> when the allow-list for
\* build permits it, and never names another directory, and the run command
\* is ./app when the allow-list for run permits it.
C32_GoEntrypoint ==
    fnCall.fn = "detectGoCommands" /\ fnResult # << >>
        /\ GoMainDirs(fnCall.files) # {}
        => LET dirs == GoMainDirs(fnCall.files)
               underCmd == {d \in dirs : Len(d) > 1 /\ d[1] = "cmd"}
               dir == IF underCmd # {} THEN FirstDir(underCmd)
                      ELSE IF << >> \in dirs THEN << >>
                      ELSE FirstDir(dirs)
               build == <<"go build -o app", " ">> \o Entrypoint(dir)
           IN  /\ IsCommandAllowed(build, fnCall.allowed.build)
                   => fnResult[1].build = build
               /\ fnResult[1].build \in {build, GoBuildAll, << >>}
               /\ IsCommandAllowed(GoApp, fnCall.allowed.run)
                   => fnResult[1].run = GoApp

\* a repository with main files at the root, in app and in cmd/B and
\* cmd/a is built from ./cmd/a
C32_Witness ==
    /\ fnCall.fn = "detectGoCommands"
    /\ {<< >>, <<"app">>, <<"cmd", "B">>, <<"cmd", "a">>}
           \subseteq GoMainDirs(fnCall.files)
    /\ fnResult # << >>
    /\ fnResult[1].build = GoBuildApp(<<".", "/", "cmd", "/", "a">>)
    /\ fnResult[1].run = GoApp

\* C40: for a Go repository and every allow-list, the run command is ./app
\* only when the build command is go build -o app <entrypoint>.
C40_RunNeedsBinary ==
    fnCall.fn = "detectGoCommands" /\ fnResult # << >>
        /\ fnResult[1].run = GoApp
        => /\ Len(fnResult[1].build) > 2
           /\ SubSeq(fnResult[1].build, 1, 2) = <<"go build -o app", " ">>

\* the names the order of C33 gives: start, serve, preview and dev; then,
\* in the order of their lower-cased strings, the other names that hold
\* start, serve, preview, dev or prod; then the first name that is not a
\* utility script
StatedRunNames(scripts) ==
    LET sorted == sortedScriptNames(scripts)
        four == addScripts(scripts, <<<<"start">>, <<"serve">>,
                                      <<"preview">>, <<"dev">>>>, << >>)
        holding ==
            SelectSeq(sorted,
                LAMBDA n : \E i \in 1..Len(n) :
                    ToLowerName(n)[i] \in {"start", "serve", "preview",
                                           "dev", "prod"})
        named == addScripts(scripts, holding, four)
        others == SelectSeq(sorted, LAMBDA n : ~isNodeUtilityScript(n))
    IN IF Len(others) > 0 THEN addScripts(scripts, <<others[1]>>, named)
       ELSE named

\* C33: for a Node repository the run candidates are the commands of
\* start, serve, preview and dev, then of every other script whose name
\* holds start, serve, preview, dev or prod, then of the first script that
\* is not a utility script, and last node server.js; the run command is
\* the first of them that the allow-list permits.
C33_NodeRunOrder ==
    fnCall.fn = "nodeRunCandidates" /\ fnResult # << >>
        => LET stated ==
                   scriptCommands(fnCall.packageManager,
                                  StatedRunNames(fnCall.scripts))
                       \o <<<<"node", " ", "server.js">>>>
           IN  /\ fnResult[1].candidates = stated
               /\ fnResult[1].run
                      = pickFirstAllowed(stated, fnCall.allowed)

\* C34: for a job submitted with a top-level env that is not empty and an
\* empty buildConfig.env, the planner run by the worker classifies exactly
\* the keys of the top-level env.
C34_TopLevelEnvPlanned ==
    /\ fnCall.fn = "CreateJob" /\ Len(fnResult) = 3
    /\ DOMAIN fnCall.env # {}
    /\ DOMAIN fnCall.buildConfig.env = {}
    => {fnResult[3].entries[i].key : i \in DOMAIN fnResult[3].entries}
           = DOMAIN fnCall.env

\* C35: for a job submitted with isAutoBuild and a network, the stored
\* record keeps the caller's network, env and envOverrides, and the worker
\* does not fail the job with "no user network provided".
C35_AutoBuildKeepsNetwork ==
    /\ fnCall.fn = "CreateJob" /\ Len(fnResult) > 0
    /\ fnResult[1].step = "created"
    /\ fnCall.buildConfig.isAutoBuild
    /\ TrimSpace(fnCall.buildConfig.network) # << >>
    => /\ fnResult[1].build_config.network = fnCall.buildConfig.network
       /\ fnResult[1].build_config.env = fnCall.buildConfig.env
       /\ fnResult[1].build_config.envOverrides
              = fnCall.buildConfig.envOverrides
       /\ Len(fnResult) = 3
              => fnResult[3].step # "no user network provided"

\* C36: while the process runs, every job whose row is claimed or building
\* has its id in the active set of the dispatcher, also when an update of
\* the status fails.
C36_InProgressOwned ==
    dpc # "down"
        => \A j \in Jobs :
               jobs[j].status \in {"claimed", "building"}
                   => j \in activeBuilds

\* C37: a container is removed only by the sweep of main, which runs after
\* the reset of the rows in progress and before the dispatcher is started,
\* when the process has no goroutine of a job, or by a run of the job that
\* has the container's name; the container of a job whose session is
\* started is removed by no step but that job's.
C37_SweepOnlyAtStart ==
    [][/\ \A n \in DOMAIN docker :
              docker[n].state # "none" /\ docker'[n].state = "none"
                  => \/ /\ dpc = "reset" /\ dpc' = "swept"
                        /\ workers = EmptyBag
                        /\ \A j \in Jobs :
                               jobs[j].status \notin {"claimed", "building"}
                     \/ \E g \in Goroutines :
                            /\ g.pc = "work"
                            /\ ContainerName(jobIDs[g.job]) = n
       /\ \A j \in Jobs :
              session[j] = "started" /\ session'[j] = "started"
                  => docker'[ContainerName(jobIDs[j])]
                         = docker[ContainerName(jobIDs[j])]]_vars

\* the sweep has removed the container that a job ran before the process
\* was killed, the reset has made the job pending and the dispatcher is not
\* yet started
C37_Witness ==
    /\ dpc = "swept"
    /\ \E j \in Jobs :
           /\ jobs[j].status = "pending"
           /\ docker[ContainerName(jobIDs[j])]
                  = [state |-> "none", owner |-> j]

\* C38: whatever the child writes, a line longer than the largest token of
\* the scanner included, the reader of a stream goes on reading while the
\* child has output for it: the child is never blocked on a full pipe whose
\* reader has ended.
C38_ReadersKeepConsuming ==
    \A s \in Streams :
        fnCall.fn = "executeCommand" /\ WriteBlocked(s)
            => reader[s] = "scanning"

\* the texts of a recipe: the keys its lines name and the arguments of the
\* statements of its RUN and CMD lines
RecipeTexts(lines) ==
    UNION {{lines[i].keys[k] : k \in DOMAIN lines[i].keys}
               \cup {lines[i].script[k].arg : k \in DOMAIN lines[i].script} :
           i \in DOMAIN lines}

\* C39: the value of a key classified as a build secret is in no argument
\* of the builder CLI, in no text of the generated recipe and not in the
\* logged command line; when the secrets were prepared it is the content of
\* a file of mode 0600 in the secret directory of the job, and the CLI
\* names the key as id and that file as src, the recipe the key.
C39_SecretValueConfined ==
    fnCall.fn = "prepareBuildSecrets" /\ fnResult # << >>
        => LET res == fnResult[1]
           IN \A n \in DOMAIN res.entries :
                  res.entries[n].secret
                      /\ res.entries[n].scope \in {"build", "both"}
                  => LET key == res.entries[n].key
                         value == res.values[key]
                     IN  /\ \A i \in DOMAIN res.args :
                                ~ContainsPieces(res.args[i], value)
                         /\ ~ContainsPieces(res.logged, value)
                         /\ \A t \in RecipeTexts(res.recipe) :
                                ~ContainsPieces(t, value)
                         /\ ~res.failed
                                => \E file \in res.files :
                                       /\ file.content = value
                                       /\ file.mode = "0600"
                                       /\ HasPrefix(file.path,
                                                    SecretDir \o <<"/">>)
                                       /\ \E i \in DOMAIN res.args :
                                              res.args[i]
                                                  = <<"id", "=">> \o key
                                                      \o <<",src", "=">>
                                                      \o file.path
                                       /\ \E i \in DOMAIN res.recipe :
                                              \E k \in DOMAIN
                                                        res.recipe[i].keys :
                                                  res.recipe[i].keys[k] = key

\* a build with the build arg PORT and the build secret X: the CLI has an
\* --opt and a --secret argument and the value of X is in a file
C39_Witness ==
    /\ fnCall.fn = "prepareBuildSecrets" /\ fnResult # << >>
    /\ ~fnResult[1].failed
    /\ \E file \in fnResult[1].files : file.content = ValueOf(<<"X">>)
    /\ \E i \in DOMAIN fnResult[1].args :
           fnResult[1].args[i]
               = <<"build-arg:", "PORT", "=">> \o ValueOf(<<"PORT">>)
    /\ \E i \in DOMAIN fnResult[1].args :
           fnResult[1].args[i] = <<"--secret">>

====
